---- MODULE Spec2Model ----
(***************************************************************************)
(* Model of the helper logic of the product-listing scripts:               *)
(*   - JSONExtractor.extract        (product_listing_refactored.py)        *)
(*   - JSONParser.smart_parse       (product_listing_utils.py)             *)
(*   - validate_product_data / validate_listing_data                       *)
(*   - batch_items                                                         *)
(*                                                                         *)
(* A text is a sequence of lexical tokens.  The tokens are the pieces the  *)
(* regular expressions and json.loads tell apart: the fence (3 backticks), *)
(* the tag json, whitespace, the two braces, a quoted key with its colon, a *)
(* digit and a letter of prose.                                            *)
(***************************************************************************)
EXTENDS Integers, Sequences, FiniteSets, TLC

FENCE == "fence"
TAG   == "json"
WS    == " "
LB    == "{"
RB    == "}"
KEY   == "\"a\":"
NUM   == "1"
PROSE == "x"

Alphabet == {FENCE, TAG, WS, LB, RB, KEY, NUM, PROSE}

\* Python values are token sequences so that TLC can compare any two of them.
None            == <<"None">>
JSONDecodeError == <<"JSONDecodeError">>
NoMatch         == <<"NoMatch">>
NotRun          == <<"NotRun">>
EmptyObject     == <<LB, RB>>

----------------------------------------------------------------------------
(* json.loads on a token sequence.  A parsed value is written as its       *)
(* tokens without whitespace, which identifies the Python object.          *)

\* the first index >= i that does not hold whitespace (Len(s)+1 at the end)
SkipWs(s, i) ==
    CHOOSE j \in i..(Len(s) + 1) :
        /\ \A m \in i..(j - 1) : s[m] = WS
        /\ (j = Len(s) + 1 \/ s[j] # WS)

\* the first index >= i that does not hold a digit: a number is a run of digits
SkipDigits(s, i) ==
    CHOOSE j \in i..(Len(s) + 1) :
        /\ \A m \in i..(j - 1) : s[m] = NUM
        /\ (j = Len(s) + 1 \/ s[j] # NUM)

ParseFail == [ok |-> FALSE, next |-> 0, val |-> <<>>]

RECURSIVE ParseValue(_, _)
ParseValue(s, i) ==
    IF i > Len(s) THEN ParseFail
    ELSE IF s[i] = NUM
    THEN [ok |-> TRUE, next |-> SkipDigits(s, i),
          val |-> SubSeq(s, i, SkipDigits(s, i) - 1)]
    ELSE IF s[i] = LB THEN
        LET j == SkipWs(s, i + 1) IN
        IF j > Len(s) THEN ParseFail
        ELSE IF s[j] = RB THEN [ok |-> TRUE, next |-> j + 1, val |-> EmptyObject]
        ELSE IF s[j] = KEY THEN
            LET v == ParseValue(s, SkipWs(s, j + 1)) IN
            IF ~v.ok THEN ParseFail
            ELSE LET e == SkipWs(s, v.next) IN
                 IF e <= Len(s) /\ s[e] = RB
                 THEN [ok |-> TRUE, next |-> e + 1,
                       val |-> <<LB, KEY>> \o v.val \o <<RB>>]
                 ELSE ParseFail
        ELSE ParseFail
    ELSE ParseFail

\* json.loads(text): the parsed value, or the exception it raises
json_loads(s) ==
    LET v == ParseValue(s, SkipWs(s, 1)) IN
    IF v.ok /\ SkipWs(s, v.next) = Len(s) + 1 THEN v.val ELSE JSONDecodeError

\* json.dumps(value): the default separators put a blank after each colon
RECURSIVE json_dumps(_)
json_dumps(v) ==
    IF v = <<>> THEN <<>>
    ELSE IF Head(v) = KEY THEN <<KEY, WS>> \o json_dumps(Tail(v))
    ELSE <<Head(v)>> \o json_dumps(Tail(v))

\* Python truth value of a parsed value or None: {} and None are false
Truthy(v) == v # None /\ v # EmptyObject

----------------------------------------------------------------------------
(* The three regular expressions, searched with re.DOTALL.                 *)

\* where a fenced pattern anchored at fence i finds its opening brace (0: nowhere)
FenceOpen(s, i, tagged) ==
    IF s[i] # FENCE THEN 0
    ELSE IF tagged /\ (i + 1 > Len(s) \/ s[i + 1] # TAG) THEN 0
    ELSE LET p == SkipWs(s, IF tagged THEN i + 2 ELSE i + 1) IN
         IF p <= Len(s) /\ s[p] = LB THEN p ELSE 0

\* the closing braces at which \}\s*<fence> matches
FenceCloses(s, p) ==
    {q \in (p + 1)..Len(s) :
        /\ s[q] = RB
        /\ LET r == SkipWs(s, q + 1) IN r <= Len(s) /\ s[r] = FENCE}

Min(S) == CHOOSE x \in S : \A y \in S : x <= y
Max(S) == CHOOSE x \in S : \A y \in S : x >= y

\* <fence>json\s*(\{.*?\})\s*<fence> and <fence>\s*(\{.*?\})\s*<fence>: group(1) of the
\* leftmost match, the lazy .*? stopping at the first brace that lets it end
SearchFenced(s, tagged) ==
    LET starts == {i \in 1..Len(s) :
                      /\ FenceOpen(s, i, tagged) # 0
                      /\ FenceCloses(s, FenceOpen(s, i, tagged)) # {}}
    IN  IF starts = {} THEN NoMatch
        ELSE LET p == FenceOpen(s, Min(starts), tagged)
             IN  SubSeq(s, p, Min(FenceCloses(s, p)))

\* (a greedy .* would run to the last closing brace)
BraceCloseGreedy(S) == Max(S)

\* which closing brace ends the bare pattern's group: .*? is lazy
BraceClose(S) == Min(S)

\* r'(\{.*?\})': group(1) of the leftmost match
SearchBrace(s) ==
    LET starts == {p \in 1..Len(s) :
                      s[p] = LB /\ \E q \in (p + 1)..Len(s) : s[q] = RB}
    IN  IF starts = {} THEN NoMatch
        ELSE LET p == Min(starts)
             IN  SubSeq(s, p, BraceClose({q \in (p + 1)..Len(s) : s[q] = RB}))

\* the patterns list of both extractors, in its order
patterns(k, s) ==
    CASE k = 1 -> SearchFenced(s, TRUE)
      [] k = 2 -> SearchFenced(s, FALSE)
      [] k = 3 -> SearchBrace(s)

NumPatterns == 3

----------------------------------------------------------------------------
(* State.                                                                  *)

VARIABLES
    text,        \* the response text handed to both extractors
    ex_pc,       \* JSONExtractor.extract: "direct", "patterns", "done", "raised"
    ex_k,        \* JSONExtractor.extract: index of the pattern of the for loop
    ex_result,   \* JSONExtractor.extract: the returned value
    ex_log,      \* JSONExtractor.extract: the attempts made so far, in order
    sp_pc,       \* JSONParser.smart_parse: "direct", "markdown", "parse", "done", "raised"
    sp_json_str, \* JSONParser.smart_parse: json_str
    sp_result,   \* JSONParser.smart_parse: the returned value
    sp_log,      \* JSONParser.smart_parse: the attempts made so far, in order
    product,     \* the dictionary handed to validate_product_data
    vp_result,   \* what validate_product_data returned or raised
    listing,     \* the dictionary handed to validate_listing_data
    vl_result,   \* what validate_listing_data returned or raised
    items,       \* batch_items: the list
    batch_size,  \* batch_items: the batch size
    b_i,         \* batch_items: i of range(0, len(items), batch_size)
    batches,     \* batch_items: the list being built
    b_pc         \* batch_items: "idle", "loop", "done"

jsonVars  == <<text, ex_pc, ex_k, ex_result, ex_log, sp_pc, sp_json_str, sp_result, sp_log>>
validVars == <<product, vp_result, listing, vl_result>>
batchVars == <<items, batch_size, b_i, batches, b_pc>>

VARIABLES
    products,    \* process_batch: the list of ProductInfo
    save_raw,    \* config.save_raw_responses
    pb_pc,       \* process_batch / process_single: where the run stands
    pb_i,        \* process_batch: i of enumerate(products, 1)
    ps_result,   \* process_single: result of api_client.generate_listing
    ps_ret,      \* process_single: what it returned or raised
    results,     \* process_batch: results
    failed,      \* process_batch: failed
    summary,     \* process_batch: summary
    files,       \* the files written to the output folder
    trace        \* what the run did to the outside (calls, writes, sleeps,
                 \* failures printed), in order

genVars == <<products, save_raw, pb_pc, pb_i, ps_result, ps_ret, results, failed,
             summary, files, trace>>

NoResult == [success |-> FALSE, listing_data |-> <<"None">>, raw_response |-> <<"None">>]

GenIdle ==
    /\ products = <<>> /\ save_raw = FALSE /\ pb_pc = "idle" /\ pb_i = 0
    /\ ps_result = NoResult /\ ps_ret = "-"
    /\ results = <<>> /\ failed = <<>> /\ summary = <<>> /\ files = {} /\ trace = <<>>

VARIABLES
    script,      \* the script that runs
    env_key,     \* OPENAI_API_KEY is set, in the environment or the .env file
    env_ffmpeg,  \* ffmpeg -version runs and succeeds
    fs_dirs,     \* the directories that exist
    fs_files,    \* the files that exist
    sc_pc,       \* the script: where it stands
    sc_k,        \* the script: how many items of its loop it has taken
    sc_exit,     \* the exit status of the process, "running" before
    sc_exc,      \* the exception that ended the process, "-" if none
    sc_did,      \* what the script did to the outside
    sc_manifest, \* the file names written to the ffmpeg file list
    tts_fn,      \* generate_speech or regenerate_part
    tts_file,    \* its filename / output_file
    tts_pc,      \* where the call stands
    tts_ret,     \* what it returned
    tts_err      \* the exception thrown inside it, "-" if none

envVars    == <<script, env_key, env_ffmpeg>>
fsVars     == <<fs_dirs, fs_files>>
scVars     == <<sc_pc, sc_k, sc_exit, sc_exc, sc_did, sc_manifest>>
ttsVars    == <<tts_fn, tts_file, tts_pc, tts_ret, tts_err>>
scriptVars == <<envVars, fsVars, scVars, ttsVars>>

ScriptIdle ==
    /\ script = "-" /\ env_key = TRUE /\ env_ffmpeg = TRUE
    /\ fs_dirs = {} /\ fs_files = {}
    /\ sc_pc = "idle" /\ sc_k = 0 /\ sc_exit = "running" /\ sc_exc = "-" /\ sc_did = {}
    /\ sc_manifest = <<>>
    /\ tts_fn = "-" /\ tts_file = "-" /\ tts_pc = "idle" /\ tts_ret = "-" /\ tts_err = "-"

VARIABLES
    st_numbers,  \* calculate_statistics: numbers
    st_called,   \* calculate_statistics has returned
    st_result,   \* calculate_statistics: its result
    fp_price,    \* format_price: price
    fp_currency, \* format_price: currency
    fp_called,   \* format_price has returned
    fp_result    \* format_price: its result

utilVars == <<st_numbers, st_called, st_result, fp_price, fp_currency, fp_called, fp_result>>

UtilIdle ==
    /\ st_numbers = <<>> /\ st_called = FALSE /\ st_result = <<>>
    /\ fp_price = 0 /\ fp_currency = "$" /\ fp_called = FALSE /\ fp_result = <<>>

VARIABLES
    fh_dirs,     \* the directories that exist, each a sequence of names
    fh_content,  \* the text of the JSON file, a sequence of tokens
    fh_exists,   \* the JSON file exists
    fh_last,     \* the last call: its name, its argument and its outcome
    fh_before,   \* the directories and the file as they were before the last call
    fh_saved     \* the last save_json: whether there was one, its data, its result

fileVars == <<fh_dirs, fh_content, fh_exists, fh_last, fh_before, fh_saved>>

NoCall == [op |-> "-", dir |-> <<>>, ok |-> FALSE, exc |-> "-", val |-> <<>>]

FileIdle ==
    /\ fh_dirs = {} /\ fh_content = <<>> /\ fh_exists = FALSE
    /\ fh_last = NoCall
    /\ fh_before = [dirs |-> {}, exists |-> FALSE, content |-> <<>>]
    /\ fh_saved = [called |-> FALSE, data |-> <<>>, ok |-> FALSE]

notMore   == <<jsonVars, validVars, batchVars, genVars, scriptVars, utilVars, fileVars>>
NotMoreIdle == GenIdle /\ ScriptIdle /\ UtilIdle /\ FileIdle

VARIABLES
    tr_text,     \* truncate_text: text
    tr_max,      \* truncate_text: max_length
    tr_suffix,   \* truncate_text: suffix
    tr_called,   \* truncate_text has returned
    tr_result    \* truncate_text: its result

trVars == <<tr_text, tr_max, tr_suffix, tr_called, tr_result>>

TrIdle ==
    /\ tr_text = <<>> /\ tr_max = 0 /\ tr_suffix = <<>> /\ tr_called = FALSE
    /\ tr_result = <<>>

VARIABLES
    ch_text,     \* split_into_chunks: text
    ch_max,      \* split_into_chunks: max_chars
    ch_called,   \* split_into_chunks has returned
    ch_chunks    \* split_into_chunks: the chunks it returned

chVars == <<ch_text, ch_max, ch_called, ch_chunks>>

ChIdle == ch_text = <<>> /\ ch_max = 0 /\ ch_called = FALSE /\ ch_chunks = <<>>

VARIABLES
    pa_outcomes, \* create_meditation_with_pauses: what the speech request of each
                 \* affirmation gives
    pa_i,        \* create_meditation_with_pauses: i of enumerate(affirmations, 1)
    pa_combined, \* create_meditation_with_pauses: combined_audio
    pa_pc,       \* create_meditation_with_pauses: "idle", "loop", "export", "returned", "raised"
    pa_exported  \* the audio in the output file, once exported

paVars == <<pa_outcomes, pa_i, pa_combined, pa_pc, pa_exported>>

PaIdle ==
    /\ pa_outcomes = <<>> /\ pa_i = 0 /\ pa_combined = <<>> /\ pa_pc = "idle"
    /\ pa_exported = <<>>

VARIABLES
    pi_result    \* ProductInfo.validate on the product: "True", "False", the
                 \* exception it raised, "-" before

piVars == <<pi_result>>

PiIdle == pi_result = "-"

VARIABLES
    gs_text,      \* MeditationTTSGenerator.generate_speech: text
    gs_old,       \* the output file as it was before the call
    gs_file,      \* the output file: whether it exists, and the audio it holds
    gs_chunks,    \* generate_speech: chunks
    gs_i,         \* generate_speech: i of enumerate(chunks)
    gs_all_audio, \* generate_speech: all_audio, the audio of each request in turn
    gs_requests,  \* the input of each speech request issued, in order
    gs_slept,     \* how many times the call has slept
    gs_pc,        \* generate_speech: "idle", "start", "loop", "returned"
    gs_ret        \* generate_speech: what it returned, "-" before

gsVars == <<gs_text, gs_old, gs_file, gs_chunks, gs_i, gs_all_audio, gs_requests,
            gs_slept, gs_pc, gs_ret>>

NoFile == [exists |-> FALSE, content |-> <<>>]

GsIdle ==
    /\ gs_text = <<>> /\ gs_old = NoFile /\ gs_file = NoFile /\ gs_chunks = <<>>
    /\ gs_i = 0 /\ gs_all_audio = <<>> /\ gs_requests = <<>> /\ gs_slept = 0
    /\ gs_pc = "idle" /\ gs_ret = "-"

moreVars == <<trVars, chVars, paVars, piVars, gsVars>>
MoreIdle == TrIdle /\ ChIdle /\ PaIdle /\ PiIdle /\ GsIdle
notTr == <<notMore, chVars, paVars, piVars, gsVars>>
notCh == <<notMore, trVars, paVars, piVars, gsVars>>
notPa == <<notMore, trVars, chVars, piVars, gsVars>>
notPi == <<notMore, trVars, chVars, paVars, gsVars>>
notGs == <<notMore, trVars, chVars, paVars, piVars>>
NotTrIdle == NotMoreIdle /\ ChIdle /\ PaIdle /\ PiIdle /\ GsIdle
NotChIdle == NotMoreIdle /\ TrIdle /\ PaIdle /\ PiIdle /\ GsIdle
NotPaIdle == NotMoreIdle /\ TrIdle /\ ChIdle /\ PiIdle /\ GsIdle
NotPiIdle == NotMoreIdle /\ TrIdle /\ ChIdle /\ PaIdle /\ GsIdle
NotGsIdle == NotMoreIdle /\ TrIdle /\ ChIdle /\ PaIdle /\ PiIdle

restVars == <<genVars, scriptVars, utilVars, fileVars, moreVars>>
RestIdle == GenIdle /\ ScriptIdle /\ UtilIdle /\ FileIdle /\ MoreIdle

notGen    == <<jsonVars, validVars, batchVars, scriptVars, utilVars, fileVars, moreVars>>
notScript == <<jsonVars, validVars, batchVars, genVars, utilVars, fileVars, moreVars>>
notFile   == <<jsonVars, validVars, batchVars, genVars, scriptVars, utilVars, moreVars>>
notUtil   == <<jsonVars, validVars, batchVars, genVars, scriptVars, fileVars, moreVars>>

vars      == <<jsonVars, validVars, batchVars, restVars>>

\* one attempt: which of the four it is, the text it handed to json.loads (or
\* NoMatch), and whether that parsed
Attempt(n, cand, r) ==
    [attempt |-> n, cand |-> cand,
     outcome |-> IF cand = NoMatch THEN "nomatch"
                 ELSE IF r = JSONDecodeError THEN "malformed" ELSE "parsed",
     val     |-> r]

----------------------------------------------------------------------------
(* The input texts.                                                        *)

MaxLen   == 3   \* every text of at most MaxLen tokens
MaxDepth == 1   \* objects nested at most MaxDepth deep inside the outer braces

ShortTexts == UNION {[1..n -> Alphabet] : n \in 0..MaxLen}

RECURSIVE Objects(_)
Objects(d) ==
    IF d = 0 THEN {EmptyObject}
    ELSE {EmptyObject} \cup
         {<<LB, KEY>> \o v \o <<RB>> : v \in Objects(d - 1) \cup {<<NUM>>}}

Malformed == <<LB, PROSE, RB>>

\* body wrapped in a fenced block, with or without the tag and blanks
Wrap(body, tagged, blanks) ==
    <<FENCE>> \o (IF tagged THEN <<TAG>> ELSE <<>>)
              \o (IF blanks THEN <<WS>> ELSE <<>>)
              \o body
              \o (IF blanks THEN <<WS>> ELSE <<>>) \o <<FENCE>>

Bodies == {json_dumps(o) : o \in Objects(MaxDepth)} \cup {Malformed}

Blocks == Bodies \cup {Wrap(b, t, w) : b \in Bodies, t \in BOOLEAN, w \in BOOLEAN}

\* prose? block (blank block)? prose?
ComposedTexts ==
    {pre \o b1 \o rest \o post :
        pre \in {<<>>, <<PROSE>>}, b1 \in Blocks,
        rest \in {<<>>} \cup {<<WS>> \o b2 : b2 \in Blocks},
        post \in {<<>>, <<PROSE>>}}

Texts == ShortTexts \cup ComposedTexts

----------------------------------------------------------------------------
(* JSONExtractor.extract                                                   *)

\* (no except clause: nothing is handled)
CaughtNothing(e) == FALSE

\* does an except json.JSONDecodeError clause handle the exception e
Caught(e) == e = JSONDecodeError

\* try: return json.loads(response_text) / except json.JSONDecodeError: pass
ExtractDirect ==
    /\ ex_pc = "direct"
    /\ LET r == json_loads(text) IN
       /\ ex_log' = Append(ex_log, Attempt(1, text, r))
       /\ IF r # JSONDecodeError
          THEN ex_pc' = "done" /\ ex_result' = r /\ UNCHANGED ex_k
          ELSE IF Caught(r)
          THEN ex_pc' = "patterns" /\ ex_k' = 1 /\ UNCHANGED ex_result
          ELSE ex_pc' = "raised" /\ ex_result' = r /\ UNCHANGED ex_k
    /\ UNCHANGED <<text, sp_pc, sp_json_str, sp_result, sp_log, validVars, batchVars, restVars>>

\* one turn of: for pattern in patterns
ExtractPattern ==
    /\ ex_pc = "patterns"
    /\ ex_k <= NumPatterns
    /\ LET match == patterns(ex_k, text)
           r     == IF match = NoMatch THEN None ELSE json_loads(match)
       IN
       /\ ex_log' = Append(ex_log, Attempt(ex_k + 1, match, r))
       /\ IF match = NoMatch
          THEN ex_k' = ex_k + 1 /\ UNCHANGED <<ex_pc, ex_result>>
          ELSE IF r # JSONDecodeError
          THEN ex_pc' = "done" /\ ex_result' = r /\ UNCHANGED ex_k
          ELSE IF Caught(r)
          THEN ex_k' = ex_k + 1 /\ UNCHANGED <<ex_pc, ex_result>>
          ELSE ex_pc' = "raised" /\ ex_result' = r /\ UNCHANGED ex_k
    /\ UNCHANGED <<text, sp_pc, sp_json_str, sp_result, sp_log, validVars, batchVars, restVars>>

\* the loop is over: print the warning, return None
ExtractNone ==
    /\ ex_pc = "patterns"
    /\ ex_k > NumPatterns
    /\ ex_pc' = "done"
    /\ ex_result' = None
    /\ UNCHANGED <<text, ex_k, ex_log, sp_pc, sp_json_str, sp_result, sp_log,
                   validVars, batchVars, restVars>>

----------------------------------------------------------------------------
(* JSONParser.parse_json, extract_from_markdown, smart_parse               *)

\* parse_json: the parsed value, None when json.loads raised JSONDecodeError
parse_json(t) ==
    LET r == json_loads(t) IN
    IF r = JSONDecodeError /\ Caught(r) THEN None ELSE r

\* the index of the first pattern that matches (NumPatterns + 1: none does)
FirstMatching(t) ==
    Min({k \in 1..NumPatterns : patterns(k, t) # NoMatch} \cup {NumPatterns + 1})

\* extract_from_markdown: group(1) of the first pattern that matches, or None
extract_from_markdown(t) ==
    IF FirstMatching(t) > NumPatterns THEN None
    ELSE patterns(FirstMatching(t), t)

\* result = JSONParser.parse_json(text); if result: return result
SmartParseDirect ==
    /\ sp_pc = "direct"
    /\ LET r == parse_json(text) IN
       /\ sp_log' = Append(sp_log, Attempt(1, text, json_loads(text)))
       /\ IF r = JSONDecodeError
          THEN sp_pc' = "raised" /\ sp_result' = r
          ELSE IF Truthy(r)
          THEN sp_pc' = "done" /\ sp_result' = r
          ELSE sp_pc' = "markdown" /\ UNCHANGED sp_result
    /\ UNCHANGED <<text, ex_pc, ex_k, ex_result, ex_log, sp_json_str, validVars, batchVars, restVars>>

\* json_str = JSONParser.extract_from_markdown(text); if json_str: ...
SmartParseMarkdown ==
    /\ sp_pc = "markdown"
    /\ sp_json_str' = extract_from_markdown(text)
    /\ sp_log' = sp_log \o
           [k \in 1..(FirstMatching(text) - 1) |-> Attempt(k + 1, NoMatch, None)]
    /\ IF sp_json_str' # None
       THEN sp_pc' = "parse" /\ UNCHANGED sp_result
       ELSE sp_pc' = "done" /\ sp_result' = None
    /\ UNCHANGED <<text, ex_pc, ex_k, ex_result, ex_log, validVars, batchVars, restVars>>

\* result = JSONParser.parse_json(json_str); if result: return result; return None
SmartParseExtracted ==
    /\ sp_pc = "parse"
    /\ LET r == parse_json(sp_json_str) IN
       /\ sp_log' = Append(sp_log,
              Attempt(Len(sp_log) + 1, sp_json_str, json_loads(sp_json_str)))
       /\ IF r = JSONDecodeError
          THEN sp_pc' = "raised" /\ sp_result' = r
          ELSE IF Truthy(r)
          THEN sp_pc' = "done" /\ sp_result' = r
          ELSE sp_pc' = "done" /\ sp_result' = None
    /\ UNCHANGED <<text, ex_pc, ex_k, ex_result, ex_log, sp_json_str, validVars, batchVars, restVars>>

----------------------------------------------------------------------------

(* Python values of the validators: a string is its characters, a number its *)
(* value in hundredths, a list the types of its elements.  Absent stands for *)
(* a key the dictionary does not have.                                       *)

Str(chars)  == [t |-> "str",    s |-> chars, n |-> 0]
Number(k)   == [t |-> "num",    s |-> <<>>,  n |-> k]
List(elems) == [t |-> "list",   s |-> elems, n |-> 0]
PyNone      == [t |-> "none",   s |-> <<>>,  n |-> 0]
Absent      == [t |-> "absent", s |-> <<>>,  n |-> 0]

\* key in dictionary
Has(d, f) == d[f].t # "absent"

\* not v
Falsy(v) ==
    \/ v.t = "none"
    \/ v.t = "num" /\ v.n = 0
    \/ v.t \in {"str", "list"} /\ v.s = <<>>

\* chars.strip()
Strip(chars) ==
    LET solid == {i \in 1..Len(chars) : chars[i] # " "} IN
    IF solid = {} THEN <<>> ELSE SubSeq(chars, Min(solid), Max(solid))

\* not str(v).strip(): only a string can print as blanks
BlankAsStr(v) == v.t = "str" /\ Strip(v.s) = <<>>

Digits == <<"0", "1", "2", "3", "4", "5", "6", "7", "8", "9">>
DigitValue(c) == (CHOOSE i \in 1..Len(Digits) : Digits[i] = c) - 1
IsDigit(c) == \E i \in 1..Len(Digits) : Digits[i] = c

RECURSIVE DigitsValue(_)
DigitsValue(chars) ==
    IF chars = <<>> THEN 0
    ELSE 10 * DigitsValue(SubSeq(chars, 1, Len(chars) - 1))
         + DigitValue(chars[Len(chars)])

\* float(v): [exc, val].  A string is stripped, then a sign and digits are read
\* (the value in hundredths); None and lists raise TypeError.
float(v) ==
    IF v.t = "num" THEN [exc |-> "", val |-> v.n]
    ELSE IF v.t = "str" THEN
        LET c    == Strip(v.s)
            neg  == c # <<>> /\ c[1] = "-"
            body == IF neg THEN Tail(c) ELSE c
        IN  IF body # <<>> /\ \A i \in 1..Len(body) : IsDigit(body[i])
            THEN [exc |-> "", val |-> (IF neg THEN -100 ELSE 100) * DigitsValue(body)]
            ELSE [exc |-> "ValueError", val |-> 0]
    ELSE [exc |-> "TypeError", val |-> 0]

\* len(v): [exc, val]
len(v) ==
    IF v.t \in {"str", "list"} THEN [exc |-> "", val |-> Len(v.s)]
    ELSE [exc |-> "TypeError", val |-> 0]

NoMessage == "<None>"
Returns(ok, msg) == [ok |-> ok, msg |-> msg, exc |-> ""]
Raises(e)        == [ok |-> FALSE, msg |-> NoMessage, exc |-> e]
NotValidated     == [ok |-> FALSE, msg |-> NoMessage, exc |-> "not run"]

----------------------------------------------------------------------------
(* validate_product_data                                                   *)

product_fields == <<"id", "name", "price", "category", "image_path">>

\* the first required field the dictionary lacks (0: it has them all)
FirstMissing(d, fields) ==
    Min({i \in 1..Len(fields) : ~Has(d, fields[i])} \cup {Len(fields) + 1})

\* (the comparison written <= 0)
PriceNotPositive(price) == price <= 0

\* (the comparison left out)
PriceNeverNegative(price) == FALSE

\* if price < 0
PriceNegative(price) == price < 0

validate_product_data(d) ==
    IF FirstMissing(d, product_fields) <= Len(product_fields)
    THEN Returns(FALSE, "Missing required field: "
                        \o product_fields[FirstMissing(d, product_fields)])
    ELSE IF Falsy(d["name"]) \/ BlankAsStr(d["name"])
    THEN Returns(FALSE, "Product name cannot be empty")
    ELSE IF float(d["price"]).exc \in {"ValueError", "TypeError"}
    THEN Returns(FALSE, "Price must be a valid number")
    ELSE IF PriceNegative(float(d["price"]).val)
    THEN Returns(FALSE, "Price cannot be negative")
    ELSE IF Falsy(d["image_path"]) \/ BlankAsStr(d["image_path"])
    THEN Returns(FALSE, "Image path cannot be empty")
    ELSE Returns(TRUE, NoMessage)

----------------------------------------------------------------------------
(* validate_listing_data                                                   *)

listing_fields == <<"title", "description", "features", "keywords">>

TitleMax       == 100
DescriptionMin == 50

validate_listing_data(d) ==
    IF FirstMissing(d, listing_fields) <= Len(listing_fields)
    THEN Returns(FALSE, "Missing required field: "
                        \o listing_fields[FirstMissing(d, listing_fields)])
    ELSE IF Falsy(d["title"])
    THEN Returns(FALSE, "Title must be 1-100 characters")
    ELSE IF len(d["title"]).exc # ""
    THEN Raises(len(d["title"]).exc)
    ELSE IF len(d["title"]).val > TitleMax
    THEN Returns(FALSE, "Title must be 1-100 characters")
    ELSE IF Falsy(d["description"])
    THEN Returns(FALSE, "Description must be at least 50 characters")
    ELSE IF len(d["description"]).exc # ""
    THEN Raises(len(d["description"]).exc)
    ELSE IF len(d["description"]).val < DescriptionMin
    THEN Returns(FALSE, "Description must be at least 50 characters")
    ELSE IF d["features"].t # "list" \/ len(d["features"]).val = 0
    THEN Returns(FALSE, "Features must be a non-empty list")
    ELSE IF Falsy(d["keywords"]) \/ d["keywords"].t # "str"
    THEN Returns(FALSE, "Keywords must be a non-empty string")
    ELSE Returns(TRUE, NoMessage)

----------------------------------------------------------------------------
(* The dictionaries handed to the validators.                              *)

MaxList == 2    \* lists of at most MaxList elements

Text(n) == [i \in 1..n |-> "a"]

Names  == {Absent, PyNone, Str(<<>>), Str(<<" ">>), Str(<<"a">>), Str(<<" ", "a", " ">>),
           Number(0), Number(500)}
Prices == {Absent, PyNone, Number(-1000), Number(0), Number(2999),
           Str(<<"a">>), Str(<<>>), Str(<<"-", "5">>), Str(<<" ", "7">>), List(<<>>)}
Paths  == {Absent, PyNone, Str(<<>>), Str(<<" ">>), Str(<<"a">>)}
Others == {Absent, Number(1)}

Products ==
    {[f \in {"id", "name", "price", "category", "image_path"} |->
        CASE f = "id" -> i [] f = "name" -> nm [] f = "price" -> pr
          [] f = "category" -> c [] f = "image_path" -> ip] :
        i \in Others, nm \in Names, pr \in Prices, c \in Others, ip \in Paths}

Lists == {List(e) : e \in UNION {[1..n -> {"str", "num"}] : n \in 0..MaxList}}

Titles       == {Absent, PyNone, Number(0), Number(5), List(<<"str">>)}
                    \cup {Str(Text(n)) : n \in {0, 1, TitleMax, TitleMax + 1}}
Descriptions == {Absent, PyNone, Number(5)}
                    \cup {Str(Text(n)) : n \in {0, DescriptionMin - 1, DescriptionMin}}
Features     == {Absent, PyNone, Str(<<"a">>)} \cup Lists
Keywords     == {Absent, PyNone, Str(<<>>), Str(<<"a">>), List(<<"str">>), Number(5)}

Listings ==
    {[f \in {"title", "description", "features", "keywords"} |->
        CASE f = "title" -> ti [] f = "description" -> de
          [] f = "features" -> fe [] f = "keywords" -> kw] :
        ti \in Titles, de \in Descriptions, fe \in Features, kw \in Keywords}

NoDict == [f \in {"none"} |-> Absent]

ValidateProduct ==
    /\ product # NoDict
    /\ vp_result = NotValidated
    /\ vp_result' = validate_product_data(product)
    /\ UNCHANGED <<product, listing, vl_result, jsonVars, batchVars, restVars>>

\* ProductInfo.validate; the comparison of None or of a string with 0 raises
ProductInfo_validate(p) ==
    IF Falsy(p.name) \/ Falsy(p.image_path) THEN "False"
    ELSE IF p.price.t # "num" THEN "TypeError"
    ELSE IF p.price.n < 0 THEN "False"
    ELSE "True"

\* ProductInfo(**product).validate(), for a product that has every field
ValidateProductInfo ==
    /\ product # NoDict
    /\ \A i \in 1..Len(product_fields) : Has(product, product_fields[i])
    /\ pi_result = "-"
    /\ pi_result' = ProductInfo_validate(product)
    /\ UNCHANGED notPi

ValidateListing ==
    /\ listing # NoDict
    /\ vl_result = NotValidated
    /\ vl_result' = validate_listing_data(listing)
    /\ UNCHANGED <<product, vp_result, listing, jsonVars, batchVars, restVars>>

----------------------------------------------------------------------------
(* batch_items                                                             *)

MaxItems     == 25   \* lists of at most MaxItems items
MaxBatchSize == 5    \* batch sizes 1..MaxBatchSize

\* (a slice that always takes batch_size - 1 items)
SliceShort(list, a, b) ==
    SubSeq(list, a + 1, IF b - 1 < Len(list) THEN b - 1 ELSE Len(list))

\* list[a:b] for 0 <= a <= b: the end is clamped to the length
Slice(list, a, b) ==
    SubSeq(list, a + 1, IF b < Len(list) THEN b ELSE Len(list))

\* one item of: for i in range(0, len(items), batch_size)
BatchStep ==
    /\ b_pc = "loop"
    /\ b_i < Len(items)
    /\ batches' = Append(batches, Slice(items, b_i, b_i + batch_size))
    /\ b_i' = b_i + batch_size
    /\ UNCHANGED <<items, batch_size, b_pc, jsonVars, validVars, restVars>>

\* the range is exhausted: the list is returned
BatchReturn ==
    /\ b_pc = "loop"
    /\ b_i >= Len(items)
    /\ b_pc' = "done"
    /\ UNCHANGED <<items, batch_size, b_i, batches, jsonVars, validVars, restVars>>

----------------------------------------------------------------------------
(* Specifications: one per group of operations, the others stay idle.      *)

JsonIdle ==
    /\ ex_pc = "direct" /\ ex_k = 0 /\ ex_result = NotRun /\ ex_log = <<>>
    /\ sp_pc = "direct" /\ sp_json_str = NotRun /\ sp_result = NotRun /\ sp_log = <<>>

ValidIdle ==
    /\ product = NoDict /\ vp_result = NotValidated
    /\ listing = NoDict /\ vl_result = NotValidated

BatchIdle ==
    /\ items = <<>> /\ batch_size = 1 /\ b_i = 0 /\ batches = <<>> /\ b_pc = "idle"

Init ==
    /\ text \in Texts
    /\ JsonIdle /\ ValidIdle /\ BatchIdle /\ RestIdle

Next ==
    \/ ExtractDirect
    \/ ExtractPattern
    \/ ExtractNone
    \/ SmartParseDirect
    \/ SmartParseMarkdown
    \/ SmartParseExtracted

Spec == Init /\ [][Next]_vars

InitValidate ==
    /\ \/ product \in Products /\ listing = NoDict
       \/ product = NoDict /\ listing \in Listings
    /\ vp_result = NotValidated /\ vl_result = NotValidated
    /\ text = <<>> /\ JsonIdle /\ BatchIdle /\ RestIdle

NextValidate ==
    \/ ValidateProduct
    \/ ValidateListing
    \/ ValidateProductInfo

SpecValidate == InitValidate /\ [][NextValidate]_vars

InitBatch ==
    /\ \E n \in 0..MaxItems :
          items \in {[i \in 1..n |-> i], [i \in 1..n |-> i % 2]}
    /\ batch_size \in 1..MaxBatchSize
    /\ b_i = 0 /\ batches = <<>> /\ b_pc = "loop"
    /\ text = <<>> /\ JsonIdle /\ ValidIdle /\ RestIdle

NextBatch ==
    \/ BatchStep
    \/ BatchReturn

SpecBatch == InitBatch /\ [][NextBatch]_vars

----------------------------------------------------------------------------
(* Properties of the two extractors.                                       *)

ExDone == ex_pc = "done"
SpDone == sp_pc = "done"

Parsed(log) == {i \in 1..Len(log) : log[i].outcome = "parsed"}

\* the attempts of a log were made in the order 1, 2, 3, 4, each only after
\* every earlier one failed
InOrder(log) ==
    \A i \in 1..Len(log) :
        /\ log[i].attempt = i
        /\ i < Len(log) => log[i].outcome # "parsed"

\* the value returned is the value of the first attempt that parsed, and None
\* is returned only after all four attempts were made
FirstSuccess(log, result) ==
    IF Parsed(log) # {}
    THEN result = log[Min(Parsed(log))].val
    ELSE Len(log) = NumPatterns + 1 /\ result = None

\* C1: both extractors make their attempts in the order whole input, tagged
\* fenced block, untagged fenced block, bare braces; they return the value of
\* the first attempt that parses, and a failed attempt never keeps a later
\* one from being tried.
C1_OrderedAttempts ==
    /\ InOrder(ex_log) /\ (ExDone => FirstSuccess(ex_log, ex_result))
    /\ InOrder(sp_log) /\ (SpDone => FirstSuccess(sp_log, sp_result))

\* C2: a JSON object serialised and wrapped in a fence, with or without the
\* json tag, comes back from both extractors as the same object.
C2_FencedRoundTrip ==
    \A o \in Objects(MaxDepth), tagged \in BOOLEAN, blanks \in BOOLEAN :
        text = Wrap(json_dumps(o), tagged, blanks) =>
            /\ ExDone => ex_result = o
            /\ SpDone => sp_result = o

\* the text has a substring that begins with { and ends with }
HasBraceSubstring(t) ==
    \E p \in 1..Len(t), q \in 1..Len(t) : p < q /\ t[p] = LB /\ t[q] = RB

\* C3: on a text without a substring that begins with { and ends with }, both
\* extractors return None and raise nothing.
C3_NoBracesGivesNone ==
    ~HasBraceSubstring(text) =>
        /\ ex_pc # "raised" /\ (ExDone => ex_result = None)
        /\ sp_pc # "raised" /\ (SpDone => sp_result = None)

\* the whole input is not JSON and neither fenced pattern finds a block
OnlyBraces(t) ==
    /\ json_loads(t) = JSONDecodeError
    /\ SearchFenced(t, TRUE) = NoMatch
    /\ SearchFenced(t, FALSE) = NoMatch
    /\ HasBraceSubstring(t)

FirstLB(t) == Min({p \in 1..Len(t) : t[p] = LB})
LastRB(t)  == Max({q \in 1..Len(t) : t[q] = RB})
NextRB(t)  == Min({q \in (FirstLB(t) + 1)..Len(t) : t[q] = RB})

\* what the last attempt yields when it is handed the substring sub
ParsedOrNone(sub) == IF json_loads(sub) = JSONDecodeError THEN None ELSE json_loads(sub)

\* C4 as stated: the last attempt takes the substring from the first { to the
\* last } of the input (greedy) and parses it, so an object with nested braces
\* between prose is returned.
C4_GreedyBraceMatch ==
    OnlyBraces(text) /\ ExDone =>
        /\ ex_log[Len(ex_log)].cand = SubSeq(text, FirstLB(text), LastRB(text))
        /\ ex_result = ParsedOrNone(SubSeq(text, FirstLB(text), LastRB(text)))

\* an object with a member and without nested braces
FlatObjects == {<<LB, KEY, NUM, RB>>}
NestedObjects == {o \in Objects(MaxDepth) : Cardinality({i \in 1..Len(o) : o[i] = LB}) > 1}

\* C4 amended: the last attempt takes the substring from the first { to the
\* first } after it (lazy) and parses that; a flat object with a member between
\* prose is returned, an object with nested braces between prose gives None.
C4_LazyBraceMatch ==
    /\ OnlyBraces(text) /\ ExDone =>
        /\ ex_log[Len(ex_log)].attempt = NumPatterns + 1
        /\ ex_log[Len(ex_log)].cand = SubSeq(text, FirstLB(text), NextRB(text))
        /\ ex_result = ParsedOrNone(SubSeq(text, FirstLB(text), NextRB(text)))
    /\ OnlyBraces(text) /\ SpDone =>
        /\ sp_json_str = SubSeq(text, FirstLB(text), NextRB(text))
        /\ sp_result \in {None, ParsedOrNone(SubSeq(text, FirstLB(text), NextRB(text)))}
    /\ \A o \in FlatObjects :
        text = <<PROSE>> \o json_dumps(o) \o <<PROSE>> =>
            (ExDone => ex_result = o) /\ (SpDone => sp_result = o)
    /\ \A o \in NestedObjects :
        text = <<PROSE>> \o json_dumps(o) \o <<PROSE>> =>
            (ExDone => ex_result = None) /\ (SpDone => sp_result = None)

\* prose, an object with nested braces, prose: both extractors gave None
C4_Witness ==
    /\ text = <<PROSE>> \o json_dumps(<<LB, KEY, LB, RB, RB>>) \o <<PROSE>>
    /\ ExDone /\ ex_result = None
    /\ SpDone /\ sp_result = None

----------------------------------------------------------------------------
(* Properties of the validators.                                           *)

ProductValidated == product # NoDict /\ vp_result # NotValidated
ListingValidated == listing # NoDict /\ vl_result # NotValidated

HasAll(d, fields) == \A i \in 1..Len(fields) : Has(d, fields[i])

NonEmptyString(v) == v.t = "str" /\ v.s # <<>>
SolidString(v)    == v.t = "str" /\ \E i \in 1..Len(v.s) : v.s[i] # " "

\* C6 as stated: a product record with a non-negative number as price and a
\* non-empty name and image path is accepted with no message.
C6_NonEmptyAccepted ==
    /\ ProductValidated
    /\ HasAll(product, product_fields)
    /\ product["price"].t = "num" /\ product["price"].n >= 0
    /\ NonEmptyString(product["name"])
    /\ NonEmptyString(product["image_path"])
    => vp_result = Returns(TRUE, NoMessage)

\* C6 amended: a product record with a non-negative number as price and a name
\* and image path that each hold a non-whitespace character is accepted with
\* no message.
C6_NonBlankAccepted ==
    /\ ProductValidated
    /\ HasAll(product, product_fields)
    /\ product["price"].t = "num" /\ product["price"].n >= 0
    /\ SolidString(product["name"])
    /\ SolidString(product["image_path"])
    => vp_result = Returns(TRUE, NoMessage)

\* a free product (price 0) with a name padded by blanks was accepted
C6_Witness ==
    /\ ProductValidated
    /\ product["price"] = Number(0)
    /\ product["name"] = Str(<<" ", "a", " ">>)
    /\ vp_result = Returns(TRUE, NoMessage)

\* the messages that contain the word negative
MentionsNegative(msg) == msg \in {"Price cannot be negative"}

WellFormedAnswer(r) ==
    /\ r.exc = ""
    /\ r.ok <=> r.msg = NoMessage
    /\ r.msg # ""

\* C8: for every dictionary both validators answer (True, None) or
\* (False, message) and never raise.
C8_ValidatorsNeverRaise ==
    /\ ProductValidated => WellFormedAnswer(vp_result)
    /\ ListingValidated => WellFormedAnswer(vl_result)

\* the listing record of the data model
WellFormedListing(d) ==
    /\ HasAll(d, listing_fields)
    /\ d["title"].t = "str" /\ Len(d["title"].s) \in 1..TitleMax
    /\ d["description"].t = "str" /\ Len(d["description"].s) >= DescriptionMin
    /\ d["features"].t = "list" /\ d["features"].s # <<>>
    /\ \A i \in 1..Len(d["features"].s) : d["features"].s[i] = "str"
    /\ d["keywords"].t = "str" /\ d["keywords"].s # <<>>

\* C9: validate_listing_data answers (True, None) exactly for the well-formed
\* listing records and rejects every other record.
C9_ListingAcceptedIffWellFormed ==
    ListingValidated =>
        (vl_result = Returns(TRUE, NoMessage) <=> WellFormedListing(listing))

----------------------------------------------------------------------------
(* Properties of batch_items.                                              *)

RECURSIVE Flatten(_)
Flatten(ss) == IF ss = <<>> THEN <<>> ELSE Head(ss) \o Flatten(Tail(ss))

\* C10: batch_items returns ceil(n / batch_size) batches whose concatenation is
\* the input; every batch but the last has batch_size items, the last has
\* between 1 and batch_size.
C10_BatchesPartitionInput ==
    b_pc = "done" =>
        /\ Len(batches) = (Len(items) + batch_size - 1) \div batch_size
        /\ Flatten(batches) = items
        /\ \A k \in 1..(Len(batches) - 1) : Len(batches[k]) = batch_size
        /\ batches # <<>> => Len(batches[Len(batches)]) \in 1..batch_size

\* ten items by three gave batches of 3, 3, 3 and 1
C10_Witness ==
    /\ b_pc = "done"
    /\ Len(items) = 10 /\ batch_size = 3
    /\ Len(batches) = 4
    /\ Len(batches[3]) = 3 /\ Len(batches[4]) = 1

----------------------------------------------------------------------------
(* ProductListingGenerator: process_single and process_batch.  The image    *)
(* file, the API and its answer are the environment's choice; the writes    *)
(* to the output folder succeed.                                            *)

\* JSONExtractor.extract: the text itself, or else the first pattern whose
\* match parses
RECURSIVE ExtractFrom(_, _)
ExtractFrom(t, k) ==
    IF k > NumPatterns THEN None
    ELSE LET m == patterns(k, t) IN
         IF m # NoMatch /\ json_loads(m) # JSONDecodeError THEN json_loads(m)
         ELSE ExtractFrom(t, k + 1)

extract(t) == IF json_loads(t) # JSONDecodeError THEN json_loads(t) ELSE ExtractFrom(t, 1)

\* a parsed value with a get method
IsDict(v) == v[1] = LB

APIError == <<"APIError">>

\* OpenAIClient.generate_listing on an answer of the API, or on its failure
generate_listing(answer) ==
    IF answer = APIError THEN NoResult
    ELSE [success |-> TRUE, listing_data |-> extract(answer), raw_response |-> answer]

Event(e, i) == [e |-> e, i |-> i]
File(kind, i) == [kind |-> kind, id |-> i]

\* for i, product in enumerate(products, 1): the next product begins
PbNext ==
    /\ pb_pc = "loop" /\ pb_i < Len(products)
    /\ pb_i' = pb_i + 1
    /\ trace' = Append(trace, Event("start", pb_i + 1))
    /\ pb_pc' = "validate"
    /\ ps_result' = NoResult /\ ps_ret' = "-"
    /\ UNCHANGED <<products, save_raw, results, failed, summary, files,
                   notGen>>

\* process_single: if not product.validate(): return None
PsValidate ==
    /\ pb_pc = "validate"
    /\ LET v == ProductInfo_validate(products[pb_i]) IN
       IF v = "True"
       THEN /\ pb_pc' = "encode" /\ ps_ret' = ps_ret
            /\ trace' = Append(trace, Event("validated", pb_i))
       ELSE /\ pb_pc' = "record"
            /\ ps_ret' = IF v = "False" THEN "None" ELSE v
            /\ trace' = Append(trace, Event("not validated", pb_i))
    /\ UNCHANGED <<products, save_raw, pb_i, ps_result, results, failed, summary,
                   files, notGen>>

EncodeFailureIgnored == "api"
\* process_single: if not image_base64: where a failed encoding leads, to the
\* return of None
EncodeFailureGoesTo == "record"

\* process_single: encode_to_base64 answers the image or None
PsEncode ==
    /\ pb_pc = "encode"
    /\ \E image_base64 \in BOOLEAN :
        IF image_base64
        THEN /\ pb_pc' = "api" /\ ps_ret' = ps_ret
             /\ trace' = Append(trace, Event("encoded", pb_i))
        ELSE /\ pb_pc' = EncodeFailureGoesTo
             /\ ps_ret' = IF EncodeFailureGoesTo = "record" THEN "None" ELSE ps_ret
             /\ trace' = Append(trace, Event("not encoded", pb_i))
    /\ UNCHANGED <<products, save_raw, pb_i, ps_result, results, failed, summary,
                   files, notGen>>

\* what the API can answer: an object, an object in a fence, the empty object,
\* a number, prose; or the call fails
ApiAnswers ==
    {APIError, <<LB, KEY, NUM, RB>>, <<FENCE, TAG, LB, KEY, NUM, RB, FENCE>>,
     <<LB, RB>>, <<NUM>>, <<PROSE>>}

\* process_single: result = self.api_client.generate_listing(image_base64, prompt)
PsCallApi ==
    /\ pb_pc = "api"
    /\ \E answer \in ApiAnswers : ps_result' = generate_listing(answer)
    /\ trace' = Append(trace, Event("api", pb_i))
    /\ pb_pc' = "response"
    /\ UNCHANGED <<products, save_raw, pb_i, ps_ret, results, failed, summary, files,
                   notGen>>

RetryFailedCall == "api"
\* process_single: where a failed call leads, to the return of None
FailedCallGoesTo == "record"

\* process_single: if not result["success"]: the failure is printed and None
\* is returned
PsApiFailed ==
    /\ pb_pc = "response" /\ ~ps_result.success
    /\ trace' = Append(trace, Event("api failed", pb_i))
    /\ ps_ret' = "None"
    /\ pb_pc' = FailedCallGoesTo
    /\ UNCHANGED <<products, save_raw, pb_i, ps_result, results, failed, summary,
                   files, notGen>>

\* process_single: if self.config.save_raw_responses
SaveRawWanted(flag) == flag

\* process_single: if not listing_data: the raw response is saved when the
\* configuration asks for it, and None is returned
PsUnparsed ==
    /\ pb_pc = "response" /\ ps_result.success /\ ~Truthy(ps_result.listing_data)
    /\ IF SaveRawWanted(save_raw)
       THEN /\ files' = files \cup {File("raw", pb_i)}
            /\ trace' = trace \o <<Event("could not parse", pb_i), Event("raw", pb_i)>>
       ELSE /\ files' = files
            /\ trace' = Append(trace, Event("could not parse", pb_i))
    /\ ps_ret' = "None"
    /\ pb_pc' = "record"
    /\ UNCHANGED <<products, save_raw, pb_i, ps_result, results, failed, summary,
                   notGen>>

\* process_single: ProductListing(title=listing_data.get("title", ""), ...);
\* a parsed value that is no dictionary has no get
PsBuildListing ==
    /\ pb_pc = "response" /\ ps_result.success /\ Truthy(ps_result.listing_data)
    /\ IF IsDict(ps_result.listing_data)
       THEN pb_pc' = "save" /\ ps_ret' = ps_ret
       ELSE pb_pc' = "record" /\ ps_ret' = "AttributeError"
    /\ UNCHANGED <<products, save_raw, pb_i, ps_result, results, failed, summary,
                   files, trace, notGen>>

\* process_single: self.file_manager.save_listing(listing, product.id); return listing
PsSaveListing ==
    /\ pb_pc = "save"
    /\ files' = files \cup {File("listing", pb_i)}
    /\ trace' = Append(trace, Event("save", pb_i))
    /\ ps_ret' = "listing"
    /\ pb_pc' = "record"
    /\ UNCHANGED <<products, save_raw, pb_i, ps_result, results, failed, summary,
                   notGen>>

DelayAlways(i, n) == i <= n
\* process_batch: if i < len(products)
DelayDue(i, n) == i < n

BatchCatchesNothing(e) == FALSE
\* process_batch: except Exception as e, around process_single: whatever
\* process_single raises is caught
BatchCatches(e) == TRUE

\* process_batch: the listing goes to results, a None or an exception to
\* failed; an exception that were not caught would end the batch
PbRecord ==
    /\ pb_pc = "record"
    /\ IF ps_ret \notin {"listing", "None"} /\ ~BatchCatches(ps_ret)
       THEN /\ pb_pc' = "raised"
            /\ UNCHANGED <<results, failed, trace>>
       ELSE /\ IF ps_ret = "listing"
               THEN results' = Append(results, pb_i) /\ failed' = failed
               ELSE /\ failed' = Append(failed,
                           [id |-> pb_i,
                            error |-> IF ps_ret = "None" THEN "Processing failed"
                                      ELSE ps_ret])
                    /\ results' = results
            /\ trace' = Append(trace, Event("end", pb_i))
            /\ pb_pc' = IF DelayDue(pb_i, Len(products)) THEN "delay" ELSE "loop"
    /\ UNCHANGED <<products, save_raw, pb_i, ps_result, ps_ret, summary, files,
                   notGen>>

\* process_batch: time.sleep(self.config.batch_delay)
PbDelay ==
    /\ pb_pc = "delay"
    /\ trace' = Append(trace, Event("delay", pb_i))
    /\ pb_pc' = "loop"
    /\ UNCHANGED <<products, save_raw, pb_i, ps_result, ps_ret, results, failed,
                   summary, files, notGen>>

\* f"{(len(results)/len(products)*100):.1f}%" if products else "0%", in tenths
\* of a percent
success_rate(good, total) ==
    IF total = 0 THEN [text |-> "0%", tenths |-> 0]
    ELSE [text |-> ".1f%", tenths |-> (2000 * good + total) \div (2 * total)]

\* process_batch: the summary is built and saved, and the batch returns
PbSummary ==
    /\ pb_pc = "loop" /\ pb_i = Len(products)
    /\ summary' = <<[total_products |-> Len(products),
                     successful     |-> Len(results),
                     failed         |-> Len(failed),
                     success_rate   |-> success_rate(Len(results), Len(products)),
                     failed_products |-> failed]>>
    /\ files' = files \cup {File("summary", 0)}
    /\ pb_pc' = "done"
    /\ UNCHANGED <<products, save_raw, pb_i, ps_result, ps_ret, results, failed,
                   trace, notGen>>

MaxProducts == 3

ProductInfos ==
    {[name |-> Str(<<"a">>), price |-> Number(2999),  image_path |-> Str(<<"a">>)],
     [name |-> Str(<<>>),    price |-> Number(2999),  image_path |-> Str(<<"a">>)],
     [name |-> Str(<<"a">>), price |-> Number(-1000), image_path |-> Str(<<"a">>)],
     [name |-> Str(<<"a">>), price |-> PyNone,        image_path |-> Str(<<"a">>)]}

InitGenerate ==
    /\ text = <<>> /\ JsonIdle /\ ValidIdle /\ BatchIdle /\ ScriptIdle /\ UtilIdle /\ FileIdle /\ MoreIdle
    /\ products \in UNION {[1..n -> ProductInfos] : n \in 0..MaxProducts}
    /\ save_raw \in BOOLEAN
    /\ pb_pc = "loop" /\ pb_i = 0
    /\ ps_result = NoResult /\ ps_ret = "-"
    /\ results = <<>> /\ failed = <<>> /\ summary = <<>> /\ files = {} /\ trace = <<>>

NextGenerate ==
    \/ PbNext \/ PsValidate \/ PsEncode \/ PsCallApi \/ PsApiFailed \/ PsUnparsed
    \/ PsBuildListing \/ PsSaveListing \/ PbRecord \/ PbDelay \/ PbSummary

SpecGenerate == InitGenerate /\ [][NextGenerate]_vars

----------------------------------------------------------------------------
(* Properties of process_batch and process_single.                         *)

Happened(e, i) == \E k \in 1..Len(trace) : trace[k] = Event(e, i)
Times(e, i)    == Cardinality({k \in 1..Len(trace) : trace[k] = Event(e, i)})
Count(e)       == Cardinality({k \in 1..Len(trace) : trace[k].e = e})
Ids(list)      == {list[k].id : k \in 1..Len(list)}
Listed(list)   == {list[k] : k \in 1..Len(list)}

\* C11: process_batch takes the products one at a time in input order: product
\* 1 starts first, product i+1 starts right after the delay that follows the
\* end of product i, nothing of a product happens outside its start and its
\* end, and a finished batch of n >= 1 products has slept exactly n-1 times,
\* never after the last product, whatever became of each product.
C11_SequentialWithDelays ==
    /\ \A k \in 1..Len(trace) :
        /\ trace[k].e = "start" =>
              IF trace[k].i = 1 THEN k = 1
              ELSE /\ k >= 3
                   /\ trace[k - 1] = Event("delay", trace[k].i - 1)
                   /\ trace[k - 2] = Event("end", trace[k].i - 1)
        /\ trace[k].e = "delay" =>
              /\ k >= 2 /\ trace[k - 1] = Event("end", trace[k].i)
              /\ trace[k].i < Len(products)
        /\ trace[k].e \notin {"start", "delay"} =>
              /\ k >= 2 /\ trace[k - 1].i = trace[k].i
              /\ trace[k - 1].e \notin {"end", "delay"}
    /\ pb_pc = "done" /\ Len(products) >= 1 =>
        /\ Count("delay") = Len(products) - 1
        /\ \A i \in 1..Len(products) : Times("start", i) = 1 /\ Times("end", i) = 1

\* a batch of three, the first product a success and the last a failure,
\* finished after two delays
C11_Witness ==
    /\ pb_pc = "done" /\ Len(products) = 3
    /\ Count("delay") = 2
    /\ 1 \in Listed(results) /\ 3 \in Ids(failed)

\* C12: nothing is retried: in any run of process_batch the API is called at
\* most once for each product, and a product whose call failed or whose
\* response gave no listing data is, once it has ended, in failed exactly once
\* and not in results.
C12_NoRetry ==
    \A i \in 1..Len(products) :
        /\ Times("api", i) <= 1
        /\ Times("start", i) <= 1
        /\ (Happened("api failed", i) \/ Happened("could not parse", i))
              /\ Happened("end", i) =>
                 /\ Cardinality({k \in 1..Len(failed) : failed[k].id = i}) = 1
                 /\ i \notin Listed(results)

\* a finished batch in which the call for product 1 failed and the response
\* for product 2 could not be parsed: one call each, both in failed
C12_Witness ==
    /\ pb_pc = "done"
    /\ Happened("api failed", 1) /\ Times("api", 1) = 1
    /\ Happened("could not parse", 2) /\ Times("api", 2) = 1
    /\ {1, 2} \subseteq Ids(failed)

\* C13: when the call succeeded and no JSON object was extracted from the
\* response, process_single returns None, no listing file of the product is
\* written, and the raw response file of the product is written if and only
\* if save_raw_responses is set.
C13_NoObjectGivesNone ==
    pb_pc = "record" /\ ps_result.success /\ ~IsDict(ps_result.listing_data) =>
        /\ ps_ret = "None"
        /\ File("listing", pb_i) \notin files
        /\ File("raw", pb_i) \in files <=> save_raw

----------------------------------------------------------------------------
(* The podcast scripts.  A run is one script in an environment: whether the *)
(* credential is set, whether ffmpeg runs, which directories and files      *)
(* exist.  The speech service, the file system and the reads can fail.      *)

\* the directory of a file: the test file lies in the parent directory, the
\* parts, the manifest and the podcast in the podcast directory
Dir(file) == IF file = "test_meditation_final.mp3" THEN ".." ELSE "podcast"

TtsCaughtApiOnly(e) == e = "APIError"
\* except Exception as e
TtsCaught(e) == e \in {"OSError", "APIError"}

\* an exception thrown inside the try of generate_speech or regenerate_part:
\* the handler prints it and the call returns False
TtsThrow(e) ==
    /\ tts_err' = e
    /\ tts_ret' = IF TtsCaught(e) THEN "False" ELSE "raised"
    /\ tts_pc' = "returned"

\* the step after the one at pc: generate_speech creates the directory, asks
\* for the speech, writes it; regenerate_part asks first and creates then
TtsAfter(fn, pc) ==
    IF fn = "generate_speech"
    THEN CASE pc = "makedirs" -> "create" [] pc = "create" -> "stream" [] OTHER -> "exists"
    ELSE CASE pc = "create" -> "makedirs" [] pc = "makedirs" -> "stream" [] OTHER -> "exists"

TtsFirst(fn) == IF fn = "generate_speech" THEN "makedirs" ELSE "create"

\* os.makedirs(os.path.dirname(filename) ..., exist_ok=True)
TtsMakedirs ==
    /\ tts_pc = "makedirs"
    /\ \/ /\ fs_dirs' = fs_dirs \cup {Dir(tts_file)}
          /\ tts_pc' = TtsAfter(tts_fn, "makedirs")
          /\ UNCHANGED <<tts_ret, tts_err>>
       \/ /\ Dir(tts_file) \notin fs_dirs
          /\ TtsThrow("OSError")
          /\ UNCHANGED fs_dirs
    /\ UNCHANGED <<tts_fn, tts_file, fs_files, envVars, scVars, notScript>>

\* client.audio.speech.create(...): without the credential the request fails
TtsCreate ==
    /\ tts_pc = "create"
    /\ \/ /\ env_key
          /\ tts_pc' = TtsAfter(tts_fn, "create")
          /\ UNCHANGED <<tts_ret, tts_err>>
       \/ TtsThrow("APIError")
    /\ UNCHANGED <<tts_fn, tts_file, fsVars, envVars, scVars, notScript>>

\* response.stream_to_file(filename): the file is written, or the write
\* throws and leaves nothing or a part of the file
TtsStream ==
    /\ tts_pc = "stream"
    /\ \/ /\ Dir(tts_file) \in fs_dirs
          /\ fs_files' = fs_files \cup {tts_file}
          /\ tts_pc' = TtsAfter(tts_fn, "stream")
          /\ UNCHANGED <<tts_ret, tts_err>>
       \/ /\ fs_files' \in {fs_files} \cup
                 (IF Dir(tts_file) \in fs_dirs THEN {fs_files \cup {tts_file}} ELSE {})
          /\ TtsThrow("OSError")
    /\ UNCHANGED <<tts_fn, tts_file, fs_dirs, envVars, scVars, notScript>>

\* if os.path.exists(filename): return True, else return False; the file can
\* have been removed since it was written
TtsExists ==
    /\ tts_pc = "exists"
    /\ \E there \in ({FALSE} \cup {tts_file \in fs_files}) :
        /\ fs_files' = IF there THEN fs_files ELSE fs_files \ {tts_file}
        /\ tts_ret' = IF there THEN "True" ELSE "False"
    /\ tts_pc' = "returned"
    /\ UNCHANGED <<tts_fn, tts_file, tts_err, fs_dirs, envVars, scVars, notScript>>

\* the call of generate_speech or regenerate_part from a script
TtsCall(fn, file) ==
    /\ tts_fn' = fn /\ tts_file' = file
    /\ tts_pc' = TtsFirst(fn)
    /\ tts_ret' = "-" /\ tts_err' = "-"

\* the process ends with an uncaught exception: a traceback and status 1
Uncaught(e) == sc_exit' = "1" /\ sc_exc' = e /\ sc_pc' = "done"

\* the script ran to its end
Finished == sc_exit' = "0" /\ sc_exc' = sc_exc /\ sc_pc' = "done"

ClientScripts == {"tts_generator", "regenerate_parts", "caller"}

\* load_dotenv(); client = OpenAI(): without the credential the library
\* either refuses to build the client or builds one whose requests fail
ScImportClient ==
    /\ script \in ClientScripts /\ sc_pc = "start"
    /\ \/ sc_pc' = "main" /\ UNCHANGED <<sc_exit, sc_exc>>
       \/ ~env_key /\ Uncaught("OpenAIError")
    /\ UNCHANGED <<sc_k, sc_did, sc_manifest, envVars, fsVars, ttsVars, notScript>>

\* tts_generator: tts = TTSGenerator(); tts.generate_speech(test_text, test_file, ...)
ScTtsTest ==
    /\ script = "tts_generator" /\ sc_pc = "main"
    /\ TtsCall("generate_speech", "test_meditation_final.mp3")
    /\ sc_pc' = "calling"
    /\ UNCHANGED <<sc_k, sc_exit, sc_exc, sc_did, sc_manifest, envVars, fsVars, notScript>>

\* tts_generator: if success: ... else: ...; the script ends
ScTtsTestDone ==
    /\ script = "tts_generator" /\ sc_pc = "calling" /\ tts_pc = "returned"
    /\ IF tts_ret = "raised" THEN Uncaught(tts_err) ELSE Finished
    /\ UNCHANGED <<sc_k, sc_did, sc_manifest, envVars, fsVars, ttsVars, notScript>>

\* a program that imports the module and calls generate_speech or
\* regenerate_part once, for a part in the podcast directory, without creating
\* the directory first
ScDirectCall ==
    /\ script = "caller" /\ sc_pc = "main"
    /\ \E fn \in {"generate_speech", "regenerate_part"} : TtsCall(fn, "intro.mp3")
    /\ sc_pc' = "calling"
    /\ UNCHANGED <<sc_k, sc_exit, sc_exc, sc_did, sc_manifest, envVars, fsVars, notScript>>

\* the call came back to the program, which ends
ScDirectCallDone ==
    /\ script = "caller" /\ sc_pc = "calling" /\ tts_pc = "returned"
    /\ IF tts_ret = "raised" THEN Uncaught(tts_err) ELSE Finished
    /\ UNCHANGED <<sc_k, sc_did, sc_manifest, envVars, fsVars, ttsVars, notScript>>

\* regenerate_parts: the three script_files
script_files == <<"intro.mp3", "opening.mp3", "closing.mp3">>

\* regenerate_parts main: os.makedirs(output_dir, exist_ok=True), outside any try
ScRegenMakedirs ==
    /\ script = "regenerate_parts" /\ sc_pc = "main"
    /\ \/ /\ fs_dirs' = fs_dirs \cup {"podcast"}
          /\ sc_pc' = "loop"
          /\ UNCHANGED <<sc_exit, sc_exc>>
       \/ /\ "podcast" \notin fs_dirs
          /\ Uncaught("OSError")
          /\ UNCHANGED fs_dirs
    /\ UNCHANGED <<sc_k, sc_did, sc_manifest, fs_files, envVars, ttsVars, notScript>>

\* regenerate_parts main: the script text is read and the part regenerated;
\* a failed read is printed and the loop goes on
ScRegenPart ==
    /\ script = "regenerate_parts" /\ sc_pc = "loop" /\ sc_k < Len(script_files)
    /\ sc_k' = sc_k + 1
    /\ \/ /\ TtsCall("regenerate_part", script_files[sc_k + 1])
          /\ sc_pc' = "calling"
       \/ UNCHANGED <<sc_pc, ttsVars>>
    /\ UNCHANGED <<sc_exit, sc_exc, sc_did, sc_manifest, envVars, fsVars, notScript>>

\* regenerate_parts main: regenerate_part came back; its result is not used,
\* and an exception would be printed by the except of the loop
ScRegenReturned ==
    /\ script = "regenerate_parts" /\ sc_pc = "calling" /\ tts_pc = "returned"
    /\ sc_pc' = "loop"
    /\ tts_pc' = "idle"
    /\ UNCHANGED <<tts_fn, tts_file, tts_ret, tts_err, sc_k, sc_exit, sc_exc, sc_did, sc_manifest,
                   envVars, fsVars, notScript>>

\* regenerate_parts main: the affirmation files found are copied, each copy
\* in its own try, the directory is listed and the script ends
ScRegenFinish ==
    /\ script = "regenerate_parts" /\ sc_pc = "loop" /\ sc_k = Len(script_files)
    /\ \E copied \in SUBSET {"affirmation_01.mp3"} : fs_files' = fs_files \cup copied
    /\ Finished
    /\ UNCHANGED <<sc_k, sc_did, sc_manifest, fs_dirs, envVars, ttsVars, notScript>>

\* test_key_working: api_key = os.getenv("OPENAI_API_KEY");
\* print(f"Key starts with: {api_key[:15]}..."): None has no slice
ScKeyPrint ==
    /\ script = "test_key_working" /\ sc_pc = "start"
    /\ IF env_key THEN sc_pc' = "main" /\ UNCHANGED <<sc_exit, sc_exc>>
       ELSE Uncaught("TypeError")
    /\ UNCHANGED <<sc_k, sc_did, sc_manifest, envVars, fsVars, ttsVars, notScript>>

\* test_key_working: the two requests, each in its own try, and the end
ScKeyRequests ==
    /\ script = "test_key_working" /\ sc_pc = "main"
    /\ sc_did' = sc_did \cup {"request"}
    /\ Finished
    /\ UNCHANGED <<sc_k, sc_manifest, envVars, fsVars, ttsVars, notScript>>

\* product_listing_refactored main: api_key = load_api_key(); if not api_key:
\* return, after the message of load_api_key
ScLoadApiKey ==
    /\ script = "product_listing_refactored" /\ sc_pc = "start"
    /\ IF env_key THEN sc_pc' = "main" /\ UNCHANGED <<sc_exit, sc_exc, sc_did>>
       ELSE sc_did' = sc_did \cup {"key not found printed"} /\ Finished
    /\ UNCHANGED <<sc_k, sc_manifest, envVars, fsVars, ttsVars, notScript>>

\* product_listing_refactored main: the generator is built, which creates the
\* output folder, the sample batch is processed and the script ends
ScGenerate ==
    /\ script = "product_listing_refactored" /\ sc_pc = "main"
    /\ fs_dirs' = fs_dirs \cup {"generated_listings_refactored"}
    /\ Finished
    /\ UNCHANGED <<sc_k, sc_did, sc_manifest, fs_files, envVars, ttsVars, notScript>>

FfmpegScripts == {"combine_final_podcast", "create_final_podcast"}

\* check_ffmpeg: True when ffmpeg -version ran and succeeded
check_ffmpeg(runs) == runs

\* if not check_ffmpeg(): the instructions are printed and sys.exit(1)
ScCheckFfmpeg ==
    /\ script \in FfmpegScripts /\ sc_pc = "start"
    /\ IF check_ffmpeg(env_ffmpeg)
       THEN /\ sc_did' = sc_did \cup {"ffmpeg -version"}
            /\ sc_pc' = "manifest"
            /\ UNCHANGED <<sc_exit, sc_exc>>
       ELSE /\ sc_did' = sc_did \cup {"ffmpeg -version", "ffmpeg missing printed"}
            /\ sc_exit' = "1" /\ sc_exc' = sc_exc /\ sc_pc' = "done"
    /\ UNCHANGED <<sc_k, sc_manifest, envVars, fsVars, ttsVars, notScript>>

\* the opening part: combine_final_podcast looks for opening075.mp3
OpeningFile(s) == IF s = "combine_final_podcast" THEN "opening075.mp3" ELSE "opening.mp3"

FileList(s) == IF s = "combine_final_podcast" THEN "ffmpeg_filelist.txt" ELSE "filelist.txt"

OutputFile(s) ==
    IF s = "combine_final_podcast" THEN "Ironhack_Mindfulness_Podcast_Final.mp3"
    ELSE "final_podcast.mp3"

Present(file) == IF file \in fs_files THEN <<file>> ELSE <<>>

\* f"affirmation_{i:02d}.mp3", the name generate_separate_affirmations gives
\* the file of affirmation i
affirmation_file(i) ==
    "affirmation_" \o (IF i < 10 THEN "0" ELSE "") \o ToString(i) \o ".mp3"

\* the code points of str(n)
RECURSIVE DigitCodes(_)
DigitCodes(n) ==
    IF n < 10 THEN <<48 + n>> ELSE Append(DigitCodes(n \div 10), 48 + (n % 10))

\* the code points of f"{i:02d}.", where the names of two affirmation files
\* first differ
NameCodes(i) == (IF i < 10 THEN <<48>> ELSE <<>>) \o DigitCodes(i) \o <<46>>

\* a < b for two strings: by code point, character after character
RECURSIVE StrLess(_, _)
StrLess(a, b) ==
    IF a = <<>> THEN b # <<>>
    ELSE IF b = <<>> THEN FALSE
    ELSE IF Head(a) # Head(b) THEN Head(a) < Head(b)
    ELSE StrLess(Tail(a), Tail(b))

\* the affirmations whose files may be there: of one, two and three digits
AffirmationNumbers == {1, 10, 11, 100}

\* glob.glob(os.path.join(source_dir, "affirmation_*.mp3"))
glob_affirmations == {i \in AffirmationNumbers : affirmation_file(i) \in fs_files}

\* sorted(...): the file names in the order of the strings
RECURSIVE sorted(_)
sorted(S) ==
    IF S = {} THEN <<>>
    ELSE LET first == CHOOSE i \in S :
                        \A j \in S \ {i} : StrLess(NameCodes(i), NameCodes(j))
         IN  <<affirmation_file(first)>> \o sorted(S \ {first})

\* files_in_order: intro, opening, the affirmations, closing, those that exist
files_in_order(s) ==
    Present("intro.mp3") \o Present(OpeningFile(s)) \o sorted(glob_affirmations)
        \o Present("closing.mp3")

\* with open(filelist_path, 'w') as f, outside any try: without the podcast
\* directory the open raises FileNotFoundError
ScWriteFileList ==
    /\ script \in FfmpegScripts /\ sc_pc = "manifest"
    /\ IF "podcast" \in fs_dirs
       THEN /\ sc_manifest' = files_in_order(script)
            /\ fs_files' = fs_files \cup {FileList(script)}
            /\ sc_did' = sc_did \cup {"file list written"}
            /\ sc_pc' = "concat"
            /\ UNCHANGED <<sc_exit, sc_exc>>
       ELSE /\ Uncaught("FileNotFoundError")
            /\ UNCHANGED <<sc_manifest, fs_files, sc_did>>
    /\ UNCHANGED <<sc_k, fs_dirs, envVars, ttsVars, notScript>>

\* the ffmpeg concat command inside try / except Exception, the closing
\* instructions, and the end of the script with status 0 whatever ffmpeg did
ScConcat ==
    /\ script \in FfmpegScripts /\ sc_pc = "concat"
    /\ sc_did' = sc_did \cup {"ffmpeg concat"}
    /\ \E created \in BOOLEAN :
        fs_files' = IF created THEN fs_files \cup {OutputFile(script)} ELSE fs_files
    /\ Finished
    /\ UNCHANGED <<sc_k, sc_manifest, fs_dirs, envVars, ttsVars, notScript>>

Scripts == ClientScripts \cup FfmpegScripts \cup {"test_key_working", "product_listing_refactored"}

InitScripts ==
    /\ text = <<>> /\ JsonIdle /\ ValidIdle /\ BatchIdle /\ GenIdle /\ UtilIdle /\ FileIdle /\ MoreIdle
    /\ script \in Scripts
    /\ env_key \in BOOLEAN /\ env_ffmpeg \in BOOLEAN
    /\ fs_dirs \in {{".."}, {"..", "podcast"}}
    /\ fs_files \in IF "podcast" \notin fs_dirs THEN {{}}
                    ELSE IF script \in FfmpegScripts
                    THEN SUBSET ({"intro.mp3", "opening.mp3", "opening075.mp3", "closing.mp3"}
                                 \cup {affirmation_file(i) : i \in AffirmationNumbers})
                    ELSE SUBSET {"intro.mp3", "affirmation_01.mp3", "closing.mp3"}
    /\ sc_pc = "start" /\ sc_k = 0 /\ sc_exit = "running" /\ sc_exc = "-" /\ sc_did = {}
    /\ sc_manifest = <<>>
    /\ tts_fn = "-" /\ tts_file = "-" /\ tts_pc = "idle" /\ tts_ret = "-" /\ tts_err = "-"

NextScripts ==
    \/ TtsMakedirs \/ TtsCreate \/ TtsStream \/ TtsExists
    \/ ScImportClient \/ ScTtsTest \/ ScTtsTestDone \/ ScDirectCall \/ ScDirectCallDone
    \/ ScRegenMakedirs \/ ScRegenPart \/ ScRegenReturned \/ ScRegenFinish
    \/ ScKeyPrint \/ ScKeyRequests \/ ScLoadApiKey \/ ScGenerate
    \/ ScCheckFfmpeg \/ ScWriteFileList \/ ScConcat

SpecScripts == InitScripts /\ [][NextScripts]_vars

----------------------------------------------------------------------------
(* Properties of the podcast scripts.                                      *)

TtsReturned == tts_pc = "returned"

\* C14: generate_speech and regenerate_part never raise: a call that has ended
\* returned True or False; it returned False when the directory creation, the
\* speech request or the file write threw; and it returned True only with the
\* output file in place.
C14_SpeechFailureCaught ==
    TtsReturned =>
        /\ tts_ret \in {"True", "False"}
        /\ tts_err # "-" => tts_ret = "False"
        /\ tts_ret = "True" => tts_file \in fs_files

\* generate_speech returned False because the directory could not be created
C14_Witness ==
    /\ TtsReturned /\ tts_fn = "generate_speech"
    /\ tts_err = "OSError" /\ tts_ret = "False"
    /\ "podcast" \notin fs_dirs

ScriptEnded == sc_exit # "running"

KeyScripts == ClientScripts \cup {"test_key_working", "product_listing_refactored"}

\* C15: no script ends with an uncaught exception because OPENAI_API_KEY is
\* absent: a run without the credential that has ended, ended without one.
C15_MissingKeyNoCrash ==
    script \in KeyScripts /\ ~env_key /\ ScriptEnded => sc_exc = "-" /\ sc_exit = "0"

\* C16: in combine_final_podcast and create_final_podcast, a run without
\* ffmpeg ends with status 1 before any file list is written and before any
\* concat command is run, and a run with ffmpeg never ends with a status other
\* than 0.
C16_OnlyMissingFfmpegExitsNonZero ==
    script \in FfmpegScripts /\ ScriptEnded =>
        /\ ~env_ffmpeg =>
              /\ sc_exit = "1"
              /\ "file list written" \notin sc_did /\ "ffmpeg concat" \notin sc_did
        /\ env_ffmpeg => sc_exit = "0"

----------------------------------------------------------------------------
(* calculate_statistics and format_price.  A float is a binary number with a *)
(* significand of FloatBits bits; the model counts in units of the smallest  *)
(* spacing, and a result is the representable number nearest to the exact    *)
(* one, a tie going to the even significand.                                 *)

FloatBits  == 4
FloatLimit == 2 ^ FloatBits

Abs(x) == IF x < 0 THEN -x ELSE x

\* the spacing of the floats around a / b
RECURSIVE Spacing(_, _, _)
Spacing(a, b, step) ==
    IF a < b * step * FloatLimit THEN step ELSE Spacing(a, b, 2 * step)

\* the float nearest to a / b, for b > 0
RoundRatio(a, b) ==
    LET m    == Abs(a)
        step == Spacing(m, b, 1)
        d    == b * step
        q    == m \div d
        r    == m % d
        up   == 2 * r > d \/ (2 * r = d /\ q % 2 = 1)
        n    == (IF up THEN q + 1 ELSE q) * step
    IN  IF a < 0 THEN -n ELSE n

\* sum(numbers): the additions from left to right, each one rounded
RECURSIVE sum(_)
sum(list) ==
    IF list = <<>> THEN 0
    ELSE RoundRatio(sum(SubSeq(list, 1, Len(list) - 1)) + list[Len(list)], 1)

Elements(list) == {list[i] : i \in 1..Len(list)}

\* sum(numbers) / len(numbers)
Mean(list) == RoundRatio(sum(list), Len(list))

\* calculate_statistics: {} is <<>>, a dictionary is a one-element sequence
calculate_statistics(list) ==
    IF list = <<>> THEN <<>>
    ELSE <<[count |-> Len(list),
            sum   |-> sum(list),
            mean  |-> Mean(list),
            min   |-> Min(Elements(list)),
            max   |-> Max(Elements(list))]>>

CalculateStatistics ==
    /\ ~st_called
    /\ st_called' = TRUE
    /\ st_result' = calculate_statistics(st_numbers)
    /\ UNCHANGED <<st_numbers, fp_price, fp_currency, fp_called, fp_result, notUtil>>

\* a price is a binary fraction, counted in units of 1 / PriceUnit
FractionBits == 10
PriceUnit    == 2 ^ FractionBits

\* the nearer of the two integers around a / b, the even one on a tie (a >= 0)
RoundHalfEven(a, b) ==
    LET q == a \div b
        r == a % b
    IN  IF 2 * r > b \/ (2 * r = b /\ q % 2 = 1) THEN q + 1 ELSE q

\* the price the literal of so many hundredths denotes: the nearest float
Literal(hundredths) == RoundHalfEven(hundredths * PriceUnit, 100)

CentsTruncated(p) == (Abs(p) * 100) \div PriceUnit
\* .2f: the hundredths nearest to the exact value of the float
Cents(p) == RoundHalfEven(Abs(p) * 100, PriceUnit)

\* str(n) for n >= 0
RECURSIVE DecimalString(_)
DecimalString(n) ==
    IF n < 10 THEN <<Digits[n + 1]>>
    ELSE Append(DecimalString(n \div 10), Digits[(n % 10) + 1])

\* f"{currency}{price:.2f}"
format_price(p, c) ==
    <<c>> \o (IF p < 0 THEN <<"-">> ELSE <<>>)
          \o DecimalString(Cents(p) \div 100)
          \o <<".", Digits[((Cents(p) \div 10) % 10) + 1], Digits[(Cents(p) % 10) + 1]>>

FormatPrice ==
    /\ ~fp_called
    /\ fp_called' = TRUE
    /\ fp_result' = format_price(fp_price, fp_currency)
    /\ UNCHANGED <<st_numbers, st_called, st_result, fp_price, fp_currency, notUtil>>

MaxNumbers == 3

\* floats of both signs, small ones and ones that use every bit
Floats == {-14, -1, 0, 1, 13, 14}

\* 0, 0.125, 0.375, 0.995..., 2.675, 5, 29.99, 99.99, a negative price and a
\* negative one that rounds to zero
Prices18 ==
    {0, PriceUnit \div 8, 3 * (PriceUnit \div 8), PriceUnit - 5, Literal(267) + 5, 5 * PriceUnit,
     Literal(2999), Literal(9999), 0 - ((11 * PriceUnit) \div 2), -1}

Currencies == {"$", "euro"}

InitUtil ==
    /\ text = <<>> /\ JsonIdle /\ ValidIdle /\ BatchIdle /\ GenIdle /\ ScriptIdle /\ FileIdle /\ MoreIdle
    /\ st_numbers \in UNION {[1..n -> Floats] : n \in 0..MaxNumbers}
    /\ st_called = FALSE /\ st_result = <<>>
    /\ fp_price \in Prices18
    /\ fp_currency \in Currencies
    /\ fp_called = FALSE /\ fp_result = <<>>

NextUtil == CalculateStatistics \/ FormatPrice

SpecUtil == InitUtil /\ [][NextUtil]_vars

----------------------------------------------------------------------------
(* Properties of calculate_statistics and format_price.                    *)

\* C17: calculate_statistics gives {} for the empty sequence, and for a
\* non-empty one the count is the length, the sum the float sum of the
\* elements, min and max the least and the greatest element, and the mean
\* lies between min and max.
C17_StatisticsOfSequence ==
    st_called =>
        IF st_numbers = <<>> THEN st_result = <<>>
        ELSE /\ Len(st_result) = 1
             /\ LET s == st_result[1] IN
                 /\ s.count = Len(st_numbers)
                 /\ s.sum = sum(st_numbers)
                 /\ \A i \in 1..Len(st_numbers) : s.min <= st_numbers[i] /\ st_numbers[i] <= s.max
                 /\ s.min \in Elements(st_numbers) /\ s.max \in Elements(st_numbers)
                 /\ s.min <= s.mean /\ s.mean <= s.max

Formatted == fp_called

WholePart(r) == SubSeq(r, IF r[2] = "-" THEN 3 ELSE 2, Len(r) - 3)

\* the hundredths the text denotes
Denoted(r) == 100 * DigitsValue(WholePart(r)) + DigitsValue(SubSeq(r, Len(r) - 1, Len(r)))

\* C18: format_price gives the currency symbol, then the price with exactly
\* two decimals: an optional minus, digits, a point and two digits, which
\* denote the hundredths nearest to the price; 29.99 with $ gives $29.99 and
\* 99.99 with the euro sign gives that sign and 99.99.
C18_TwoDecimals ==
    Formatted =>
        LET r == fp_result IN
        /\ Len(r) >= 5 /\ r[1] = fp_currency
        /\ r[Len(r) - 2] = "." /\ IsDigit(r[Len(r) - 1]) /\ IsDigit(r[Len(r)])
        /\ WholePart(r) # <<>> /\ \A i \in 1..Len(WholePart(r)) : IsDigit(WholePart(r)[i])
        /\ (r[2] = "-") = (fp_price < 0)
        /\ 2 * Abs(Denoted(r) * PriceUnit - Abs(fp_price) * 100) <= PriceUnit
        /\ fp_price = Literal(2999) /\ fp_currency = "$" => r = <<"$", "2", "9", ".", "9", "9">>
        /\ fp_price = Literal(9999) /\ fp_currency = "euro" => r = <<"euro", "9", "9", ".", "9", "9">>

\* 29.99 was formatted with $, and a price just under 1 was rounded up to 1.00
C18_Witness ==
    /\ Formatted
    /\ \/ fp_price = Literal(2999) /\ fp_result = <<"$", "2", "9", ".", "9", "9">>
       \/ fp_price = PriceUnit - 5 /\ fp_result = <<fp_currency, "1", ".", "0", "0">>

----------------------------------------------------------------------------
(* FileHandler and FileManager on a file system.  A path is a sequence of   *)
(* names below the working directory, which always exists.                  *)

Parent(path) == SubSeq(path, 1, Len(path) - 1)

IsDir(dirs, path) == path = <<>> \/ path \in dirs

Made(dirs) == [exc |-> "-", dirs |-> dirs]
MkdirRaises(e, dirs) == [exc |-> e, dirs |-> dirs]

\* Path.mkdir(parents, exist_ok) where no regular file is in the way
RECURSIVE mkdir(_, _, _, _)
mkdir(path, parents, exist_ok, dirs) ==
    IF IsDir(dirs, path)
    THEN IF exist_ok THEN Made(dirs) ELSE MkdirRaises("FileExistsError", dirs)
    ELSE IF IsDir(dirs, Parent(path)) THEN Made(dirs \cup {path})
    ELSE IF ~parents THEN MkdirRaises("FileNotFoundError", dirs)
    ELSE mkdir(path, FALSE, exist_ok, mkdir(Parent(path), TRUE, TRUE, dirs).dirs)

Snapshot == [dirs |-> fh_dirs, exists |-> fh_exists, content |-> fh_content]

Call(op, dir, ok, exc, val) == [op |-> op, dir |-> dir, ok |-> ok, exc |-> exc, val |-> val]

DirPaths == {<<"a">>, <<"a", "b">>}

\* FileHandler.ensure_directory: path.mkdir(parents=True, exist_ok=True)
EnsureDirectory ==
    /\ \E dir \in DirPaths :
        LET r == mkdir(dir, TRUE, TRUE, fh_dirs) IN
        /\ fh_dirs' = r.dirs
        /\ fh_last' = Call("ensure_directory", dir, r.exc = "-", r.exc, <<>>)
    /\ fh_before' = Snapshot
    /\ UNCHANGED <<fh_content, fh_exists, fh_saved, notFile>>

\* FileManager.__init__: self.output_folder.mkdir(exist_ok=True)
FileManagerInit ==
    /\ \E dir \in DirPaths :
        LET r == mkdir(dir, FALSE, TRUE, fh_dirs) IN
        /\ fh_dirs' = r.dirs
        /\ fh_last' = Call("FileManager", dir, r.exc = "-", r.exc, <<>>)
    /\ fh_before' = Snapshot
    /\ UNCHANGED <<fh_content, fh_exists, fh_saved, notFile>>

\* the JSON file lies in a/b
JsonDir == <<"a", "b">>

Tok(k, s) == [k |-> k, s |-> s]

\* str(key) as json.dump writes a key: the string itself, the digits of an
\* int, null for None
KeyText(k) ==
    CASE k.t = "str" -> k.s
      [] k.t = "num" -> DecimalString(k.n)
      [] OTHER       -> <<"n", "u", "l", "l">>

ValueToken(v) ==
    CASE v.t = "str" -> Tok("str", v.s)
      [] v.t = "num" -> Tok("num", DecimalString(v.n))
      [] OTHER       -> Tok("null", <<>>)

\* the members, each on a line of its own, with commas between
RECURSIVE DumpMembers(_)
DumpMembers(d) ==
    IF d = <<>> THEN <<>>
    ELSE <<Tok("ws", <<>>), Tok("key", KeyText(d[1][1])), Tok("ws", <<>>), ValueToken(d[1][2])>>
         \o (IF Len(d) > 1 THEN <<Tok(",", <<>>)>> ELSE <<>>)
         \o DumpMembers(Tail(d))

\* json.dump(data, f, indent=2, ensure_ascii=False) of a dictionary
json_dump(d) ==
    IF d = <<>> THEN <<Tok("{", <<>>), Tok("}", <<>>)>>
    ELSE <<Tok("{", <<>>)>> \o DumpMembers(d) \o <<Tok("ws", <<>>), Tok("}", <<>>)>>

RECURSIVE NoWs(_)
NoWs(ts) ==
    IF ts = <<>> THEN <<>>
    ELSE (IF ts[1].k = "ws" THEN <<>> ELSE <<ts[1]>>) \o NoWs(Tail(ts))

TokenValue(tok) ==
    CASE tok.k = "str" -> Str(tok.s)
      [] tok.k = "num" -> Number(DigitsValue(tok.s))
      [] OTHER         -> PyNone

\* d[k] = v: the value of a key already there is replaced
RECURSIVE Put(_, _, _)
Put(d, k, v) ==
    IF d = <<>> THEN <<<<k, v>>>>
    ELSE IF d[1][1] = k THEN <<<<k, v>>>> \o Tail(d)
    ELSE <<d[1]>> \o Put(Tail(d), k, v)

Loaded(d) == [ok |-> TRUE, val |-> d]
LoadFails == [ok |-> FALSE, val |-> <<>>]

\* the members between the braces: key, value, and a comma before the next
RECURSIVE LoadMembers(_, _)
LoadMembers(ts, acc) ==
    IF ts = <<>> THEN Loaded(acc)
    ELSE IF Len(ts) < 2 \/ ts[1].k # "key" \/ ts[2].k \notin {"str", "num", "null"}
    THEN LoadFails
    ELSE LET d == Put(acc, Str(ts[1].s), TokenValue(ts[2])) IN
         IF Len(ts) = 2 THEN Loaded(d)
         ELSE IF ts[3].k # "," \/ Len(ts) = 3 THEN LoadFails
         ELSE LoadMembers(SubSeq(ts, 4, Len(ts)), d)

\* json.load(f) of a text that holds an object
json_load(text20) ==
    LET ts == NoWs(text20) IN
    IF Len(ts) < 2 \/ ts[1].k # "{" \/ ts[Len(ts)].k # "}" THEN LoadFails
    ELSE LoadMembers(SubSeq(ts, 2, Len(ts) - 1), <<>>)

JsonCaughtNothing(e) == FALSE
\* except Exception as e
JsonCaught(e) == e \in {"FileNotFoundError", "JSONDecodeError"}

MaxKeys == 2

Keys20   == {Str(<<"a">>), Str(<<"1">>), Number(1)}
Values20 == {Number(7), Str(<<"a">>)}

\* the dictionaries of at most MaxKeys keys, in the order of insertion
Dicts20 ==
    {d \in UNION {[1..n -> Keys20 \X Values20] : n \in 0..MaxKeys} :
        \A i, j \in 1..Len(d) : i # j => d[i][1] # d[j][1]}

\* FileHandler.save_json: open(filepath, 'w') needs the directory of the file
SaveJson ==
    /\ \E d \in Dicts20 :
        IF IsDir(fh_dirs, JsonDir)
        THEN /\ fh_content' = json_dump(d) /\ fh_exists' = TRUE
             /\ fh_last' = Call("save_json", JsonDir, TRUE, "-", <<>>)
             /\ fh_saved' = [called |-> TRUE, data |-> d, ok |-> TRUE]
        ELSE /\ UNCHANGED <<fh_content, fh_exists>>
             /\ fh_last' = Call("save_json", JsonDir, FALSE,
                                IF JsonCaught("FileNotFoundError") THEN "-"
                                ELSE "FileNotFoundError", <<>>)
             /\ fh_saved' = [called |-> TRUE, data |-> d, ok |-> FALSE]
    /\ fh_before' = Snapshot
    /\ UNCHANGED <<fh_dirs, notFile>>

\* FileHandler.load_json: the dictionary, or None after any exception
LoadJson ==
    /\ LET e == IF ~fh_exists THEN "FileNotFoundError"
                ELSE IF ~json_load(fh_content).ok THEN "JSONDecodeError" ELSE "-"
       IN  fh_last' =
             IF e = "-" THEN Call("load_json", JsonDir, TRUE, "-", json_load(fh_content).val)
             ELSE Call("load_json", JsonDir, FALSE, IF JsonCaught(e) THEN "-" ELSE e, <<>>)
    /\ fh_before' = Snapshot
    /\ UNCHANGED <<fh_dirs, fh_content, fh_exists, fh_saved, notFile>>

InitFiles ==
    /\ text = <<>> /\ JsonIdle /\ ValidIdle /\ BatchIdle /\ GenIdle /\ ScriptIdle /\ UtilIdle /\ MoreIdle
    /\ fh_dirs \in {{}, {<<"a">>}, {<<"a">>, <<"a", "b">>}}
    /\ fh_exists \in IF JsonDir \in fh_dirs THEN BOOLEAN ELSE {FALSE}
    /\ fh_content \in IF fh_exists THEN {json_dump(<<>>), <<Tok("{", <<>>)>>} ELSE {<<>>}
    /\ fh_last = NoCall
    /\ fh_before = Snapshot
    /\ fh_saved = [called |-> FALSE, data |-> <<>>, ok |-> FALSE]

NextFiles == EnsureDirectory \/ FileManagerInit \/ SaveJson \/ LoadJson

SpecFiles == InitFiles /\ [][NextFiles]_vars

----------------------------------------------------------------------------
(* Properties of FileHandler and FileManager.                              *)

MadeDirectory == fh_last.op \in {"ensure_directory", "FileManager"}

\* C19: FileHandler.ensure_directory and the construction of a FileManager
\* succeed whether or not the directory or its parents exist: no exception,
\* the directory exists afterwards, and the directories and the file that
\* were there before are as they were.
C19_DirectoryCreationIdempotent ==
    MadeDirectory =>
        /\ fh_last.ok /\ fh_last.exc = "-"
        /\ IsDir(fh_dirs, fh_last.dir)
        /\ fh_before.dirs \subseteq fh_dirs
        /\ fh_exists = fh_before.exists /\ fh_content = fh_before.content

\* dictionaries are equal when they hold the same keys with the same values
DictEq(d1, d2) == Elements(d1) = Elements(d2)

StringKeyed(d) == \A i \in 1..Len(d) : d[i][1].t = "str"

SaveAnswered ==
    fh_last.op = "save_json" =>
        /\ fh_last.exc = "-"
        /\ fh_last.ok <=> IsDir(fh_before.dirs, JsonDir)

LoadedAfterSave == fh_last.op = "load_json" /\ fh_saved.called /\ fh_saved.ok

----------------------------------------------------------------------------
(* truncate_text (product_listing_utils.py).  A string is the sequence of   *)
(* its characters.                                                         *)

\* text[:k]: a negative k counts from the end
PrefixTo(s, k) ==
    IF k >= 0 THEN SubSeq(s, 1, Min({k, Len(s)}))
    ELSE SubSeq(s, 1, Max({Len(s) + k, 0}))

truncate_text(t, max_length, suffix) ==
    IF Len(t) <= max_length THEN t
    ELSE PrefixTo(t, max_length - Len(suffix)) \o suffix

TruncateText ==
    /\ ~tr_called
    /\ tr_called' = TRUE
    /\ tr_result' = truncate_text(tr_text, tr_max, tr_suffix)
    /\ UNCHANGED <<tr_text, tr_max, tr_suffix, notTr>>

MaxText   == 4
MaxSuffix == 3

Strings(alphabet, n) == UNION {[1..k -> alphabet] : k \in 0..n}

InitTruncate ==
    /\ text = <<>> /\ JsonIdle /\ ValidIdle /\ BatchIdle /\ NotTrIdle
    /\ tr_text \in Strings({"a", "b"}, MaxText)
    /\ tr_suffix \in Strings({"."}, MaxSuffix)
    /\ tr_max \in 0..MaxText + 1
    /\ tr_called = FALSE /\ tr_result = <<>>

NextTruncate == TruncateText

SpecTruncate == InitTruncate /\ [][NextTruncate]_vars

\* the last characters of s are those of suffix
EndsWith(s, suffix) ==
    /\ Len(s) >= Len(suffix)
    /\ SubSeq(s, Len(s) - Len(suffix) + 1, Len(s)) = suffix

\* C21: truncate_text returns the text unchanged when len(text) <= max_length,
\* and otherwise a string of exactly max_length characters that ends with the
\* suffix; the result is never longer than max_length.
C21_TruncatedToMaxLength ==
    tr_called =>
        /\ Len(tr_text) <= tr_max => tr_result = tr_text
        /\ Len(tr_text) > tr_max =>
              /\ Len(tr_result) = tr_max
              /\ EndsWith(tr_result, tr_suffix)
        /\ Len(tr_result) <= tr_max

----------------------------------------------------------------------------
(* MeditationTTSGenerator.split_into_chunks (tts_meditation.py).           *)

\* char in '.!?'
EndsSentence(char) == char \in {".", "!", "?"}

Whitespace(char) == char = " "

\* str.strip()
RECURSIVE strip(_)
strip(s) ==
    IF s = <<>> THEN s
    ELSE IF Whitespace(Head(s)) THEN strip(Tail(s))
    ELSE IF Whitespace(s[Len(s)]) THEN strip(SubSeq(s, 1, Len(s) - 1))
    ELSE s

\* the first loop and the if after it: the sentences of text[i..], with
\* current_sentence as it stands before character i
RECURSIVE SplitSentences(_, _, _)
SplitSentences(t, i, current_sentence) ==
    IF i > Len(t)
    THEN IF current_sentence # <<>> THEN <<strip(current_sentence)>> ELSE <<>>
    ELSE LET extended == Append(current_sentence, t[i])
         IN  IF EndsSentence(t[i])
             THEN <<strip(extended)>> \o SplitSentences(t, i + 1, <<>>)
             ELSE SplitSentences(t, i + 1, extended)

\* len(current_chunk) + len(sentence) + 1 < max_chars
Fits(current_chunk, sentence, max_chars) ==
    Len(current_chunk) + Len(sentence) + 1 < max_chars

\* (a chunk is closed even when it is empty)
ClosedAlways(current_chunk) == TRUE

\* if current_chunk: chunks.append(current_chunk)
Closed(current_chunk) == current_chunk # <<>>

\* the second loop and the if after it: the chunks of sentences[i..], with
\* current_chunk as it stands before sentence i
RECURSIVE GroupSentences(_, _, _, _)
GroupSentences(sentences, i, current_chunk, max_chars) ==
    IF i > Len(sentences)
    THEN IF Closed(current_chunk) THEN <<current_chunk>> ELSE <<>>
    ELSE IF Fits(current_chunk, sentences[i], max_chars)
         THEN GroupSentences(sentences, i + 1,
                  IF current_chunk # <<>> THEN current_chunk \o <<" ">> \o sentences[i]
                  ELSE sentences[i],
                  max_chars)
         ELSE (IF Closed(current_chunk) THEN <<current_chunk>> ELSE <<>>)
              \o GroupSentences(sentences, i + 1, sentences[i], max_chars)

split_into_chunks(t, max_chars) ==
    GroupSentences(SplitSentences(t, 1, <<>>), 1, <<>>, max_chars)

SplitIntoChunks ==
    /\ ~ch_called
    /\ ch_called' = TRUE
    /\ ch_chunks' = split_into_chunks(ch_text, ch_max)
    /\ UNCHANGED <<ch_text, ch_max, notCh>>

MaxChars == 5

\* a letter, a space and two of the characters that end a sentence
Characters == {"a", " ", ".", "!"}

InitChunks ==
    /\ text = <<>> /\ JsonIdle /\ ValidIdle /\ BatchIdle /\ NotChIdle
    /\ ch_text \in Strings(Characters, MaxChars)
    /\ ch_max \in 1..MaxChars + 1
    /\ ch_called = FALSE /\ ch_chunks = <<>>

NextChunks == SplitIntoChunks

SpecChunks == InitChunks /\ [][NextChunks]_vars

\* C22: every chunk returned by split_into_chunks(text, max_chars) has fewer
\* than max_chars characters.
C22_ChunksBelowLimit ==
    ch_called => \A k \in 1..Len(ch_chunks) : Len(ch_chunks[k]) < ch_max

\* the sentences of the text, as the first loop of split_into_chunks finds them
sentences(t) == SplitSentences(t, 1, <<>>)

NonEmpty(list) == SelectSeq(list, LAMBDA s : s # <<>>)

\* the sentences of chunks[i..], chunk after chunk
RECURSIVE SentencesOfChunks(_, _)
SentencesOfChunks(chunks, i) ==
    IF i > Len(chunks) THEN <<>>
    ELSE sentences(chunks[i]) \o SentencesOfChunks(chunks, i + 1)

\* C30: the non-empty sentences of the returned chunks, read in chunk order,
\* are the non-empty sentences of the input in input order, and no returned
\* chunk is empty.
C30_NothingLostOrReordered ==
    ch_called =>
        /\ NonEmpty(SentencesOfChunks(ch_chunks, 1)) = NonEmpty(sentences(ch_text))
        /\ \A k \in 1..Len(ch_chunks) : ch_chunks[k] # <<>>

\* several chunks were returned, one of them holding more than one sentence,
\* and the text ended in white space that makes an empty sentence
C30_Witness ==
    /\ ch_called
    /\ Len(ch_chunks) >= 2
    /\ \E k \in 1..Len(ch_chunks) : Len(NonEmpty(sentences(ch_chunks[k]))) >= 2
    /\ <<>> \in {sentences(ch_text)[k] : k \in 1..Len(sentences(ch_text))}

----------------------------------------------------------------------------
(* The manifest of the combine scripts.                                    *)

ManifestWritten == script \in FfmpegScripts /\ "file list written" \in sc_did

\* the place of a file in the playback: intro, opening, the affirmations by
\* their number, closing
PlaybackPlace(file) ==
    CASE file = "intro.mp3" -> 0
      [] file = OpeningFile(script) -> 1
      [] file = "closing.mp3" -> Max(AffirmationNumbers) + 2
      [] OTHER -> 1 + (CHOOSE i \in AffirmationNumbers : affirmation_file(i) = file)

\* C23: the manifest written by the combine scripts lists only files that
\* exist, each exactly once, in playback order: intro, opening, the
\* affirmation files in ascending affirmation number, closing.
C23_ManifestInPlaybackOrder ==
    ManifestWritten =>
        /\ \A k \in 1..Len(sc_manifest) : sc_manifest[k] \in fs_files
        /\ \A k \in 1..Len(sc_manifest) - 1 :
              PlaybackPlace(sc_manifest[k]) < PlaybackPlace(sc_manifest[k + 1])

----------------------------------------------------------------------------
(* FinalMeditationTTS.create_meditation_with_pauses (tts_final_meditation.py). *)
(* The combined audio is the sequence of its segments: i stands for the    *)
(* speech of affirmation i, Pause for pause_ms of silence.                 *)

Pause == 0

\* generate_affirmation_audio: response.content, or None when the request threw
generate_affirmation_audio(outcome) == IF outcome = "failed" THEN "None" ELSE outcome

\* one turn of the for loop: the request, and for audio that came back the
\* decoding (which throws on bytes that are no MP3), the segment and the pause
PaAffirmation ==
    /\ pa_pc = "loop" /\ pa_i <= Len(pa_outcomes)
    /\ LET audio_bytes == generate_affirmation_audio(pa_outcomes[pa_i])
       IN  IF audio_bytes = "None"
           THEN /\ pa_i' = pa_i + 1
                /\ UNCHANGED <<pa_combined, pa_pc>>
           ELSE IF audio_bytes = "garbled"
           THEN /\ pa_pc' = "raised"
                /\ UNCHANGED <<pa_i, pa_combined>>
           ELSE /\ pa_combined' = pa_combined \o <<pa_i>>
                                  \o (IF pa_i < Len(pa_outcomes) THEN <<Pause>> ELSE <<>>)
                /\ pa_i' = pa_i + 1
                /\ pa_pc' = pa_pc
    /\ UNCHANGED <<pa_outcomes, pa_exported, notPa>>

\* combined_audio.export(output_filename, format="mp3"); return True
PaExport ==
    /\ pa_pc = "loop" /\ pa_i > Len(pa_outcomes)
    /\ pa_exported' = pa_combined
    /\ pa_pc' = "returned"
    /\ UNCHANGED <<pa_outcomes, pa_i, pa_combined, notPa>>

MaxAffirmations == 4

InitPauses ==
    /\ text = <<>> /\ JsonIdle /\ ValidIdle /\ BatchIdle /\ NotPaIdle
    /\ pa_outcomes \in UNION {[1..n -> {"mp3", "failed", "garbled"}] : n \in 0..MaxAffirmations}
    /\ pa_i = 1 /\ pa_combined = <<>> /\ pa_pc = "loop" /\ pa_exported = <<>>

NextPauses == PaAffirmation \/ PaExport

SpecPauses == InitPauses /\ [][NextPauses]_vars

\* the affirmations i.. whose audio came back, with one pause between each two
RECURSIVE WithPausesBetween(_, _)
WithPausesBetween(outcomes, i) ==
    IF i > Len(outcomes) THEN <<>>
    ELSE IF outcomes[i] = "failed" THEN WithPausesBetween(outcomes, i + 1)
    ELSE LET rest == WithPausesBetween(outcomes, i + 1)
         IN  <<i>> \o (IF rest = <<>> THEN <<>> ELSE <<Pause>> \o rest)

\* C24: the exported audio is the successfully generated affirmations in script
\* order with exactly one pause between each two consecutive ones and no pause
\* before the first or after the last, whichever affirmations failed.
C24_PausesOnlyBetween ==
    pa_pc = "returned" => pa_exported = WithPausesBetween(pa_outcomes, 1)

----------------------------------------------------------------------------
(* Properties of a finished batch.                                         *)

Increasing(list) == \A k \in 1..Len(list) - 1 : list[k] < list[k + 1]

FailedIds == [k \in 1..Len(failed) |-> failed[k].id]

\* product i ended in an exception thrown inside process_single
Threw(i) ==
    \E k \in 1..Len(failed) : failed[k].id = i /\ failed[k].error # "Processing failed"

\* C25: after process_batch returns every input product is accounted for
\* exactly once, in results or in failed, so successful + failed equals
\* total_products; results and failed keep the input order; and an exception
\* thrown while processing one product does not stop the products after it.
C25_EveryProductAccounted ==
    /\ pb_pc # "raised"
    /\ pb_pc = "done" =>
        /\ Listed(results) \cup Ids(failed) = 1..Len(products)
        /\ Listed(results) \cap Ids(failed) = {}
        /\ Len(results) + Len(failed) = Len(products)
        /\ summary[1].total_products = Len(products)
        /\ summary[1].successful = Len(results)
        /\ summary[1].failed = Len(failed)
        /\ summary[1].successful + summary[1].failed = summary[1].total_products
        /\ Increasing(results) /\ Increasing(FailedIds)
        /\ \A i \in 1..Len(products) :
              Threw(i) => \A j \in (i + 1)..Len(products) :
                              Times("start", j) = 1 /\ Times("end", j) = 1

\* a finished batch of three in which the first product threw, the second gave
\* a listing and the third failed without an exception
C25_Witness ==
    /\ pb_pc = "done" /\ Len(products) = 3
    /\ Threw(1)
    /\ results = <<2>>
    /\ FailedIds = <<1, 3>> /\ ~Threw(3)

----------------------------------------------------------------------------
(* The stages of process_single.                                           *)

\* where in the trace the event of product i is, 0 if it is not there
Place(e, i) ==
    IF Happened(e, i) THEN CHOOSE k \in 1..Len(trace) : trace[k] = Event(e, i) ELSE 0

FailedStages == {"not validated", "not encoded", "api failed", "could not parse"}

\* the API answered and a value was extracted from the answer
Extracted(i) ==
    /\ Happened("api", i)
    /\ ~Happened("api failed", i) /\ ~Happened("could not parse", i)

\* C28: process_single runs validate, encode image, call API (with the
\* extraction), save listing in this order and stops at the first stage that
\* fails: the API is called only for a product that passed validate() and
\* whose image was encoded, the listing file is written only after a
\* successful call and a successful extraction, and a listing is returned only
\* after that file was written.
C28_StagesInOrder ==
    /\ \A i \in 1..Len(products) :
        /\ \A e \in {"encoded", "not encoded"} :
              Happened(e, i) =>
                  Happened("validated", i) /\ Place("validated", i) < Place(e, i)
        /\ Happened("api", i) =>
              Happened("encoded", i) /\ Place("encoded", i) < Place("api", i)
        /\ Happened("save", i) =>
              /\ Extracted(i) /\ Place("api", i) < Place("save", i)
              /\ File("listing", i) \in files
        /\ File("listing", i) \in files => Happened("save", i)
        /\ i \in Listed(results) => File("listing", i) \in files
    /\ ps_ret = "listing" => File("listing", pb_i) \in files
    /\ \A k \in 1..Len(trace) :
          trace[k].e \in FailedStages =>
              \A l \in (k + 1)..Len(trace) :
                  trace[l].i = trace[k].i => trace[l].e \in {"raw", "end", "delay"}

\* a finished batch whose first product went through every stage and whose
\* second stopped at the encoding of its image
C28_Witness ==
    /\ pb_pc = "done"
    /\ 1 \in Listed(results) /\ Happened("save", 1)
    /\ Happened("not encoded", 2) /\ ~Happened("api", 2)

----------------------------------------------------------------------------
(* The two extractors side by side.                                        *)

\* C26: for every input text JSONParser.smart_parse(text) and
\* JSONExtractor.extract(text) return the same result: the same parsed value,
\* or both None.
C26_ExtractorsAgree ==
    ExDone /\ SpDone => sp_result = ex_result

----------------------------------------------------------------------------
(* The two product validators side by side.                                *)

\* C27: for every product record that has all required fields and a numeric
\* price, ProductInfo.validate() returns True exactly when
\* validate_product_data on the same field values returns (True, None).
C27_ValidatorsAgree ==
    /\ product # NoDict /\ HasAll(product, product_fields) /\ product["price"].t = "num"
    /\ pi_result # "-" /\ vp_result # NotValidated
    => (pi_result = "True" <=> vp_result = Returns(TRUE, NoMessage))

----------------------------------------------------------------------------
(* MeditationTTSGenerator.generate_speech (tts_meditation.py).  The audio   *)
(* of a request is written as the text that was sent.                      *)

\* the max_chars that split_into_chunks(text) is called with, at the scale of
\* the texts of the model
DefaultMaxChars == 3

\* chunk.replace('...', '.'): every run of three dots, from the left
RECURSIVE replace_dots(_)
replace_dots(s) ==
    IF Len(s) < 3 THEN s
    ELSE IF SubSeq(s, 1, 3) = <<".", ".", ".">>
    THEN <<".">> \o replace_dots(SubSeq(s, 4, Len(s)))
    ELSE <<Head(s)>> \o replace_dots(Tail(s))

\* os.makedirs(..., exist_ok=True) and chunks = self.split_into_chunks(text);
\* a makedirs that throws is caught and False is returned
GsStart ==
    /\ gs_pc = "start"
    /\ \E made \in BOOLEAN :
        IF made
        THEN /\ gs_chunks' = split_into_chunks(gs_text, DefaultMaxChars)
             /\ gs_pc' = "loop" /\ gs_ret' = gs_ret
        ELSE /\ gs_pc' = "returned" /\ gs_ret' = "False"
             /\ gs_chunks' = gs_chunks
    /\ UNCHANGED <<gs_text, gs_old, gs_file, gs_i, gs_all_audio, gs_requests, gs_slept,
                   notGs>>

RequestFailureSkipped == "loop"
\* except Exception as e: where a request that throws leads, to return False
RequestFailureGoesTo == "returned"

\* one turn of for i, chunk in enumerate(chunks): the request, its audio
\* appended to all_audio, the sleep between chunks
GsRequest ==
    /\ gs_pc = "loop" /\ gs_i < Len(gs_chunks)
    /\ gs_requests' = Append(gs_requests, replace_dots(gs_chunks[gs_i + 1]))
    /\ \E answered \in BOOLEAN :
        IF answered
        THEN /\ gs_all_audio' = Append(gs_all_audio, replace_dots(gs_chunks[gs_i + 1]))
             /\ gs_slept' = IF gs_i < Len(gs_chunks) - 1 THEN gs_slept + 1 ELSE gs_slept
             /\ gs_i' = gs_i + 1
             /\ UNCHANGED <<gs_pc, gs_ret>>
        ELSE /\ gs_pc' = RequestFailureGoesTo
             /\ gs_ret' = IF RequestFailureGoesTo = "returned" THEN "False" ELSE gs_ret
             /\ gs_i' = IF RequestFailureGoesTo = "returned" THEN gs_i ELSE gs_i + 1
             /\ UNCHANGED <<gs_all_audio, gs_slept>>
    /\ UNCHANGED <<gs_text, gs_old, gs_file, gs_chunks, notGs>>

\* with open(filename, 'wb') as f: f.write(all_audio), and the check of the
\* file: an open that throws leaves the file as it was, a write that throws
\* leaves it cut; both are caught and False is returned
GsSave ==
    /\ gs_pc = "loop" /\ gs_i = Len(gs_chunks)
    /\ \E outcome \in {"written", "open failed", "write failed"} :
        /\ gs_file' = CASE outcome = "written" -> [exists |-> TRUE, content |-> gs_all_audio]
                        [] outcome = "open failed" -> gs_file
                        [] outcome = "write failed" -> [exists |-> TRUE, content |-> <<>>]
        /\ gs_ret' = IF outcome = "written" THEN "True" ELSE "False"
    /\ gs_pc' = "returned"
    /\ UNCHANGED <<gs_text, gs_old, gs_chunks, gs_i, gs_all_audio, gs_requests, gs_slept,
                   notGs>>

MaxSpeechText == 4

InitSpeech ==
    /\ text = <<>> /\ JsonIdle /\ ValidIdle /\ BatchIdle /\ NotGsIdle
    /\ gs_text \in Strings(Characters, MaxSpeechText)
    /\ gs_old \in {NoFile, [exists |-> TRUE, content |-> <<<<"o", "l", "d">>>>]}
    /\ gs_file = gs_old
    /\ gs_chunks = <<>> /\ gs_i = 0 /\ gs_all_audio = <<>> /\ gs_requests = <<>>
    /\ gs_slept = 0 /\ gs_pc = "start" /\ gs_ret = "-"

NextSpeech == GsStart \/ GsRequest \/ GsSave

SpecSpeech == InitSpeech /\ [][NextSpeech]_vars

\* the speech requests of the chunks, in chunk order
ChunkRequests == [k \in 1..Len(gs_chunks) |-> replace_dots(gs_chunks[k])]

\* a request was issued and did not answer
RequestFailed == Len(gs_requests) > Len(gs_all_audio)

\* C29: generate_speech issues one speech request per chunk in chunk order and
\* writes the output file only after every request has succeeded; if a
\* chunk's request fails it returns False and the output file is neither
\* created nor modified; on success the file holds the audio of the chunks
\* concatenated in chunk order.
C29_AllOrNothing ==
    /\ Len(gs_requests) <= Len(gs_chunks)
    /\ gs_requests = SubSeq(ChunkRequests, 1, Len(gs_requests))
    /\ gs_file # gs_old => ~RequestFailed /\ Len(gs_requests) = Len(gs_chunks)
    /\ RequestFailed => gs_pc = "returned" /\ gs_ret = "False" /\ gs_file = gs_old
    /\ gs_ret = "True" =>
          /\ gs_requests = ChunkRequests
          /\ gs_file = [exists |-> TRUE, content |-> ChunkRequests]

\* the request of the second chunk failed: False was returned and the file
\* that was there is as it was
C29_Witness ==
    /\ gs_pc = "returned" /\ gs_ret = "False"
    /\ Len(gs_requests) = 2 /\ RequestFailed
    /\ gs_old.exists /\ gs_file = gs_old

====
